---- MODULE Spec2Model ----
(***************************************************************************)
(* A state-machine model of My Kingdom's simulation core: the resource     *)
(* nodes, the building registry, the A* pathfinder, the JobManager's       *)
(* per-citizen state machine and the local map generator's post passes.    *)
(*                                                                         *)
(* Units.  Python floats are kept exact by scaling:                        *)
(*   - positions are in half tiles (x = 3 means 1.5 tiles); building       *)
(*     centres x + width / 2 and all tile coordinates are exact;           *)
(*   - delta_time is in half seconds;                                      *)
(*   - construction progress is in quarter work units;                     *)
(*   - path costs are in thousandths (a diagonal step costs 1414).         *)
(***************************************************************************)
EXTENDS Integers, Sequences, FiniteSets, TLC

VARIABLES
    citizens,              \* GameState.citizens: id -> Citizen
    buildings,             \* GameState.buildings: registry, in order
    resource_nodes,        \* GameState.resource_nodes: id -> Resource
    resources,             \* GameState.resources: the stockpile
    citizen_gather_time,   \* JobManager.citizen_gather_time
    local_tiles,           \* GameState.local_tiles: rows of terrain
    next_building_id,      \* GameState.next_building_id
    current_view,          \* GameState.current_view
    idx,                   \* position of JobManager.update's loop (0: not in a tick)
    delta_time,            \* the delta_time of the tick in progress
    last_event,            \* what the last step did (the logger's view)
    astar,                 \* the state of a find_path call in progress
    gen                    \* the state of a generate_local_map call in progress

vars == <<citizens, buildings, resource_nodes, resources, citizen_gather_time,
          local_tiles, next_building_id, current_view, idx, delta_time,
          last_event, astar, gen>>

NONE == "none"

Min2(a, b) == IF a <= b THEN a ELSE b

Max2(a, b) == IF a >= b THEN a ELSE b

(***************************************************************************)
(* Terrain                                                                 *)
(***************************************************************************)
TerrainType == {"grass", "water", "sand", "forest", "stone", "dirt"}

Height(tiles) == Len(tiles)

Width(tiles) == IF Len(tiles) > 0 THEN Len(tiles[1]) ELSE 0

\* tiles[y][x] with Python's 0-based indices
TileAt(tiles, x, y) == tiles[y + 1][x + 1]

InBounds(tiles, x, y) == 0 <= x /\ x < Width(tiles) /\ 0 <= y /\ y < Height(tiles)

SetTile(tiles, x, y, t) == [tiles EXCEPT ![y + 1][x + 1] = t]

UniformTiles(w, h, t) == [y \in 1..h |-> [x \in 1..w |-> t]]

(***************************************************************************)
(* Buildings                                                               *)
(***************************************************************************)
Kinds == <<"wood", "stone", "food", "iron">>

KindSet == {Kinds[k] : k \in 1..Len(Kinds)}

NoMaterials == [k \in KindSet |-> 0]

BuildingType == {"house", "storage", "warehouse", "workshop", "farm", "mine",
                 "lumber_camp", "well", "market", "wagon"}

\* construction_work and max_workers as in the catalog; required_resources
\* lists wood before stone in every entry, the order dict iteration yields.
BUILDING_DEFINITIONS ==
    [house       |-> [width |-> 3, height |-> 3, construction_work |-> 100, max_workers |-> 0,
                      required_resources |-> [NoMaterials EXCEPT !["wood"] = 20, !["stone"] = 10]],
     storage     |-> [width |-> 4, height |-> 4, construction_work |-> 80, max_workers |-> 0,
                      required_resources |-> [NoMaterials EXCEPT !["wood"] = 30]],
     warehouse   |-> [width |-> 5, height |-> 5, construction_work |-> 150, max_workers |-> 0,
                      required_resources |-> [NoMaterials EXCEPT !["wood"] = 50, !["stone"] = 30]],
     workshop    |-> [width |-> 3, height |-> 3, construction_work |-> 120, max_workers |-> 4,
                      required_resources |-> [NoMaterials EXCEPT !["wood"] = 25, !["stone"] = 15]],
     farm        |-> [width |-> 5, height |-> 5, construction_work |-> 60, max_workers |-> 3,
                      required_resources |-> [NoMaterials EXCEPT !["wood"] = 10]],
     mine        |-> [width |-> 2, height |-> 2, construction_work |-> 150, max_workers |-> 5,
                      required_resources |-> [NoMaterials EXCEPT !["wood"] = 15, !["stone"] = 5]],
     lumber_camp |-> [width |-> 3, height |-> 2, construction_work |-> 70, max_workers |-> 4,
                      required_resources |-> [NoMaterials EXCEPT !["wood"] = 15]],
     well        |-> [width |-> 1, height |-> 1, construction_work |-> 100, max_workers |-> 0,
                      required_resources |-> [NoMaterials EXCEPT !["stone"] = 20]],
     market      |-> [width |-> 4, height |-> 3, construction_work |-> 140, max_workers |-> 6,
                      required_resources |-> [NoMaterials EXCEPT !["wood"] = 40, !["stone"] = 20]],
     wagon       |-> [width |-> 2, height |-> 2, construction_work |-> 0, max_workers |-> 0,
                      required_resources |-> NoMaterials]]

get_definition(b) == BUILDING_DEFINITIONS[b.building_type]

NewBuilding(id, type, x, y) ==
    [id |-> id, building_type |-> type, x |-> x, y |-> y, state |-> "planned",
     construction_progress |-> 0, materials_delivered |-> NoMaterials,
     assigned_workers |-> <<>>, is_active |-> FALSE]

\* Building.assign_worker: the id is appended unless it is already there
assign_worker(b, citizen_id) ==
    IF \E n \in 1..Len(b.assigned_workers) : b.assigned_workers[n] = citizen_id
    THEN b
    ELSE [b EXCEPT !.assigned_workers = Append(@, citizen_id)]

\* Building.remove_worker: list.remove of the id if it is there
remove_worker(b, citizen_id) ==
    [b EXCEPT !.assigned_workers = SelectSeq(@, LAMBDA w : w # citizen_id)]

\* Building.get_required_materials: kind -> amount still needed (0: not needed)
get_required_materials(b) ==
    [k \in KindSet |->
        IF b.materials_delivered[k] < get_definition(b).required_resources[k]
        THEN get_definition(b).required_resources[k] - b.materials_delivered[k]
        ELSE 0]

NeedsSomething(b) == \E k \in KindSet : get_required_materials(b)[k] > 0

has_all_materials(b) == ~NeedsSomething(b)

\* deliver_material that drops what exceeds the requirement
deliver_material_capped(b, kind, amount) ==
    [b EXCEPT !.materials_delivered[kind] =
                 Min2(@ + amount, get_definition(b).required_resources[kind])]

deliver_material(b, kind, amount) ==
    [b EXCEPT !.materials_delivered[kind] = @ + amount]

can_start_construction(b) == b.state = "planned" /\ has_all_materials(b)

\* construction_work in quarter units
WorkQ(b) == 4 * get_definition(b).construction_work

\* add_construction_progress without the test against construction_work
add_progress_then_complete(b, amountQ) ==
    [b EXCEPT !.construction_progress = @ + amountQ, !.state = "complete"]

\* add_construction_progress that keeps what goes beyond construction_work
add_progress_uncapped(b, amountQ) ==
    IF b.state = "under_construction"
    THEN IF b.construction_progress + amountQ >= WorkQ(b)
         THEN [b EXCEPT !.state = "complete", !.construction_progress = @ + amountQ,
                        !.is_active = TRUE]
         ELSE [b EXCEPT !.construction_progress = @ + amountQ]
    ELSE b

\* Building.add_construction_progress
add_construction_progress(b, amountQ) ==
    IF b.state = "under_construction"
    THEN IF b.construction_progress + amountQ >= WorkQ(b)
         THEN [b EXCEPT !.state = "complete", !.construction_progress = WorkQ(b),
                        !.is_active = TRUE]
         ELSE [b EXCEPT !.construction_progress = @ + amountQ]
    ELSE b

occupies_tile(b, tx, ty) ==
    /\ b.x <= tx /\ tx < b.x + get_definition(b).width
    /\ b.y <= ty /\ ty < b.y + get_definition(b).height

\* Building.get_center, in half tiles
get_center(b) == <<2 * b.x + get_definition(b).width, 2 * b.y + get_definition(b).height>>

Footprint(b) ==
    {<<tx, ty>> \in (b.x .. b.x + get_definition(b).width - 1)
                    \X (b.y .. b.y + get_definition(b).height - 1) : TRUE}

(***************************************************************************)
(* Resource nodes                                                          *)
(***************************************************************************)
ResourceType == {"tree", "stone", "berry_bush", "iron_ore"}

\* Resource.__post_init__: the per-type properties
ResourceProps ==
    [tree       |-> [provides_resource |-> "wood",  provides_amount |-> 4, max_amount |-> 4],
     stone      |-> [provides_resource |-> "stone", provides_amount |-> 8, max_amount |-> 24],
     berry_bush |-> [provides_resource |-> "food",  provides_amount |-> 5, max_amount |-> 25],
     iron_ore   |-> [provides_resource |-> "iron",  provides_amount |-> 5, max_amount |-> 60]]

NewResource(type, x, y) ==
    [resource_type |-> type, x |-> x, y |-> y,
     amount_remaining |-> ResourceProps[type].max_amount,
     max_amount |-> ResourceProps[type].max_amount,
     provides_resource |-> ResourceProps[type].provides_resource,
     provides_amount |-> ResourceProps[type].provides_amount,
     is_depleted |-> FALSE, currently_being_gathered |-> FALSE,
     assigned_citizen_id |-> 0, designated |-> FALSE]

\* gather that never marks the node depleted after taking the last of it
gather_without_depletion(r) ==
    IF r.is_depleted \/ r.amount_remaining <= 0
    THEN [node |-> [r EXCEPT !.is_depleted = TRUE], kind |-> NONE, amount |-> 0]
    ELSE LET gather_amount == Min2(r.provides_amount, r.amount_remaining)
         IN [node |-> [r EXCEPT !.amount_remaining = @ - gather_amount],
             kind |-> r.provides_resource, amount |-> gather_amount]

\* Resource.gather: the node afterwards and the returned (resource_type, amount)
gather(r) ==
    IF r.is_depleted \/ r.amount_remaining <= 0
    THEN [node |-> [r EXCEPT !.is_depleted = TRUE], kind |-> NONE, amount |-> 0]
    ELSE LET gather_amount == Min2(r.provides_amount, r.amount_remaining)
             left == r.amount_remaining - gather_amount
         IN [node |-> [r EXCEPT !.amount_remaining = left,
                                !.is_depleted = (left <= 0)],
             kind |-> r.provides_resource, amount |-> gather_amount]

\* Resource.to_dict (gather_time, which nothing here reads, left out)
resource_to_dict(r) ==
    [resource_type |-> r.resource_type, x |-> r.x, y |-> r.y,
     amount_remaining |-> r.amount_remaining, max_amount |-> r.max_amount,
     provides_resource |-> r.provides_resource,
     provides_amount |-> r.provides_amount, is_depleted |-> r.is_depleted]

\* Resource.from_dict: the constructor takes amount_remaining and max_amount
\* from the data, and its __post_init__ then sets both by the type
resource_from_dict(data) ==
    [NewResource(data.resource_type, data.x, data.y)
        EXCEPT !.provides_resource = data.provides_resource,
               !.provides_amount = data.provides_amount,
               !.is_depleted = data.is_depleted]

assign_citizen(r, citizen_id) ==
    [r EXCEPT !.currently_being_gathered = TRUE, !.assigned_citizen_id = citizen_id]

\* unassign_citizen that forgets the citizen and leaves the node claimed
unassign_citizen_id_only(r) == [r EXCEPT !.assigned_citizen_id = 0]

\* assigned_citizen_id None is 0 here (citizen ids start at 1)
unassign_citizen(r) ==
    [r EXCEPT !.currently_being_gathered = FALSE, !.assigned_citizen_id = 0]

(***************************************************************************)
(* Pathfinder (A* over the local grid)                                     *)
(***************************************************************************)
\* max_iterations' default
MaxIterations == 1000

\* the neighbour offsets, in the order the loop tries them
Directions == <<<<-1, 0>>, <<1, 0>>, <<0, -1>>, <<0, 1>>,
                <<-1, -1>>, <<-1, 1>>, <<1, -1>>, <<1, 1>>>>

RECURSIVE ISqrtIn(_, _, _)
ISqrtIn(v, lo, hi) ==
    IF lo >= hi THEN lo
    ELSE LET mid == (lo + hi + 1) \div 2
         IN IF mid * mid <= v THEN ISqrtIn(v, mid, hi) ELSE ISqrtIn(v, lo, mid - 1)

\* floor(1000 * sqrt(n)) for the squared distances of a small grid
SqrtMilli == [n \in 0..450 |-> ISqrtIn(1000000 * n, 0, 22000)]

\* Pathfinder._heuristic, in thousandths (rounded down)
Heuristic(x1, y1, x2, y2) == SqrtMilli[(x2 - x1) * (x2 - x1) + (y2 - y1) * (y2 - y1)]

\* the building obstacle map of find_path: footprints clipped to the grid,
\* the goal tile taken out
BuildingObstacles(tiles, blds, gx, gy) ==
    {t \in UNION {Footprint(blds[k]) : k \in 1..Len(blds)} :
        InBounds(tiles, t[1], t[2])} \ {<<gx, gy>>}

\* Pathfinder._is_walkable
IsWalkable(x, y, tiles, obstacles) ==
    /\ <<x, y>> \notin obstacles
    /\ TileAt(tiles, x, y) # "water"

MoveCost(d) == IF d[1] # 0 /\ d[2] # 0 THEN 1414 ELSE 1000

\* a start node that is left out of the waypoints read off the parent chain
StartNodeLeftOut(sx, sy, gx, gy) ==
    [f_cost |-> Heuristic(sx, sy, gx, gy), g_cost |-> 0, x |-> sx, y |-> sy,
     path |-> <<>>]

\* result is <<>> for None.  A search node carries the waypoints from the start to it: what
\* _reconstruct_path reads off the parent chain.
StartNode(sx, sy, gx, gy) ==
    [f_cost |-> Heuristic(sx, sy, gx, gy), g_cost |-> 0, x |-> sx, y |-> sy,
     path |-> <<<<sx, sy>>>>]

\* find_path up to the loop: the early returns and the start node
AStarBegin(sx, sy, gx, gy, tiles, blds) ==
    IF Height(tiles) = 0 \/ Width(tiles) = 0
       \/ ~InBounds(tiles, sx, sy) \/ ~InBounds(tiles, gx, gy)
    THEN [status |-> "done", result |-> <<>>, open_list |-> <<>>, closed_set |-> {},
          iterations |-> 0, goal |-> <<gx, gy>>, start |-> <<sx, sy>>,
          obstacles |-> {}]
    ELSE IF sx = gx /\ sy = gy
    THEN [status |-> "done", result |-> <<<<sx, sy>>>>, open_list |-> <<>>,
          closed_set |-> {}, iterations |-> 0, goal |-> <<gx, gy>>,
          start |-> <<sx, sy>>, obstacles |-> {}]
    ELSE [status |-> "running", result |-> <<>>,
          open_list |-> <<StartNode(sx, sy, gx, gy)>>, closed_set |-> {},
          iterations |-> 0, goal |-> <<gx, gy>>, start |-> <<sx, sy>>,
          obstacles |-> BuildingObstacles(tiles, blds, gx, gy)]

RemoveAt(seq, k) == [j \in 1..(Len(seq) - 1) |-> IF j < k THEN seq[j] ELSE seq[j + 1]]

\* the neighbours the loop pushes for `current`, in direction order
RECURSIVE Neighbors(_, _, _, _, _)
Neighbors(current, closed, st, tiles, d) ==
    IF d > Len(Directions) THEN <<>>
    ELSE LET nx == current.x + Directions[d][1]
             ny == current.y + Directions[d][2]
             rest == Neighbors(current, closed, st, tiles, d + 1)
         IN IF InBounds(tiles, nx, ny) /\ <<nx, ny>> \notin closed
               /\ IsWalkable(nx, ny, tiles, st.obstacles)
            THEN LET g == current.g_cost + MoveCost(Directions[d])
                 IN <<[f_cost |-> g + Heuristic(nx, ny, st.goal[1], st.goal[2]),
                       g_cost |-> g, x |-> nx, y |-> ny,
                       path |-> Append(current.path, <<nx, ny>>)]>> \o rest
            ELSE rest

\* one pass of find_path's while loop, popping open_list[k]
AStarStep(st, k, tiles) ==
    IF st.open_list = <<>> \/ st.iterations >= MaxIterations
    THEN [st EXCEPT !.status = "done", !.result = <<>>]
    ELSE LET current == st.open_list[k]
             closed == st.closed_set \cup {<<current.x, current.y>>}
         IN IF <<current.x, current.y>> = st.goal
            THEN [st EXCEPT !.status = "done", !.result = current.path,
                            !.iterations = @ + 1,
                            !.open_list = RemoveAt(st.open_list, k)]
            ELSE [st EXCEPT !.iterations = @ + 1, !.closed_set = closed,
                            !.open_list = RemoveAt(st.open_list, k)
                                          \o Neighbors(current, closed, st, tiles, 1)]

MinF(open) ==
    LET fs == {open[k].f_cost : k \in 1..Len(open)}
    IN CHOOSE m \in fs : \A f \in fs : m <= f

\* heappop's pick when equal f_cost leave the oldest entry first
FirstMin(open) ==
    LET ks == {k \in 1..Len(open) : open[k].f_cost = MinF(open)}
    IN CHOOSE k \in ks : \A j \in ks : k <= j

RECURSIVE AStarRun(_, _)
AStarRun(st, tiles) ==
    IF st.status = "done" THEN st
    ELSE AStarRun(AStarStep(st, IF st.open_list = <<>> THEN 0 ELSE FirstMin(st.open_list),
                            tiles), tiles)

\* Pathfinder.find_path: the waypoints, or <<>> for None (a path is never empty)
find_path(sx, sy, gx, gy, tiles, blds) ==
    AStarRun(AStarBegin(sx, sy, gx, gy, tiles, blds), tiles).result

(***************************************************************************)
(* Citizens                                                                *)
(***************************************************************************)
\* move_speed, tiles per second
MoveSpeed == 5

\* a task reference: a Building (its place in the registry), a Resource (its
\* place in resource_nodes), or None
NoTask == [kind |-> NONE, ref |-> 0]

BuildingTask(k) == [kind |-> "building", ref |-> k]

NodeTask(n) == [kind |-> "node", ref |-> n]

\* target is <<>> for None, else <<x, y>> in half tiles; current_path is <<>>
\* for None (the code reads None and [] alike), else the waypoint tiles
NewCitizen(id, x, y, skill) ==
    [id |-> id, x |-> 2 * x, y |-> 2 * y, state |-> "idle", current_job |-> NONE,
     target |-> <<>>, construction_skill |-> skill,
     can_construct |-> TRUE, can_gather |-> TRUE, can_haul |-> TRUE,
     carrying_resource |-> NONE, carrying_amount |-> 0,
     current_task |-> NoTask, current_path |-> <<>>, path_index |-> 0]

assign_task(c, task, job_type) ==
    [c EXCEPT !.current_task = task, !.current_job = job_type, !.state = "walking"]

\* a clear_task that leaves the movement target and the path in place
clear_task_keeping_target(c) ==
    [c EXCEPT !.current_task = NoTask, !.current_job = NONE, !.state = "idle"]

\* Citizen.clear_task
clear_task(c) ==
    [c EXCEPT !.current_task = NoTask, !.current_job = NONE, !.state = "idle",
              !.target = <<>>, !.current_path = <<>>, !.path_index = 0]

set_target(c, t, path) ==
    [c EXCEPT !.target = t, !.state = "walking", !.current_path = path,
              !.path_index = 0]

\* squared distance of two points given in half tiles (4 * distance^2)
DistSq(x1, y1, x2, y2) == (x1 - x2) * (x1 - x2) + (y1 - y2) * (y1 - y2)

\* a has_reached_target that holds wherever the citizen stands
has_reached_anywhere(c) == TRUE

\* Citizen.has_reached_target: distance < 0.5
has_reached_target(c) ==
    IF c.target = <<>> THEN TRUE
    ELSE DistSq(c.x, c.y, c.target[1], c.target[2]) < 1

\* move_speed * delta_time >= distance, for a squared distance d2
MoveCovers(dt, d2) == MoveSpeed * MoveSpeed * dt * dt >= d2

\* A step that stops short of its waypoint ends on a point with irrational
\* coordinates; the delta_time values of the model are those for which
\* move_speed * delta_time spans the grid, and this value stops the run if
\* that is ever not so.
Inexact == "inexact position"

\* Citizen.update
CitizenUpdate(c, dt) ==
    IF c.state = "walking" /\ c.target # <<>>
    THEN IF c.current_path # <<>> /\ c.path_index < Len(c.current_path)
         THEN LET wp == c.current_path[c.path_index + 1]
                  d2 == DistSq(c.x, c.y, 2 * wp[1], 2 * wp[2])
              IN IF 25 * d2 < 9          \* distance < 0.3
                 THEN IF c.path_index + 1 >= Len(c.current_path)
                      THEN [c EXCEPT !.path_index = @ + 1,
                                     !.x = c.target[1], !.y = c.target[2]]
                      ELSE [c EXCEPT !.path_index = @ + 1]
                 ELSE IF MoveCovers(dt, d2)
                      THEN [c EXCEPT !.x = 2 * wp[1], !.y = 2 * wp[2]]
                      ELSE [c EXCEPT !.x = Inexact, !.y = Inexact]
         ELSE LET d2 == DistSq(c.x, c.y, c.target[1], c.target[2])
              IN IF 25 * d2 > 1          \* distance > 0.1
                 THEN IF MoveCovers(dt, d2)
                      THEN [c EXCEPT !.x = c.target[1], !.y = c.target[2]]
                      ELSE [c EXCEPT !.x = Inexact, !.y = Inexact]
                 ELSE [c EXCEPT !.x = c.target[1], !.y = c.target[2]]
    ELSE c

\* int() of a coordinate held in half tiles
TileOf(h) == h \div 2

(***************************************************************************)
(* GameState: storage capacity                                             *)
(***************************************************************************)
\* max_storage_capacity
BaseStorageCapacity == 500

\* storage_capacity_per_warehouse
StoragePerWarehouse == 2000

get_total_storage_capacity(blds) ==
    BaseStorageCapacity
    + StoragePerWarehouse
      * Cardinality({k \in 1..Len(blds) : /\ blds[k].building_type = "warehouse"
                                          /\ blds[k].state = "complete"})

RECURSIVE SumKinds(_, _)
SumKinds(res, k) == IF k > Len(Kinds) THEN 0 ELSE res[Kinds[k]] + SumKinds(res, k + 1)

get_current_storage_used(res) == SumKinds(res, 1)

\* get_storage_remaining without the amounts already stored
storage_remaining_when_empty(blds, res) == get_total_storage_capacity(blds)

get_storage_remaining(blds, res) ==
    get_total_storage_capacity(blds) - get_current_storage_used(res)

\* can_add_resources without the comparison
can_add_unchecked(blds, res, amount) == amount >= 0

can_add_resources(blds, res, amount) == get_storage_remaining(blds, res) >= amount

(***************************************************************************)
(* JobManager                                                              *)
(* The operators below act on a record w of the collections a tick reads   *)
(* and writes: citizens, buildings, resource_nodes, resources,             *)
(* citizen_gather_time, and last_event.                                    *)
(***************************************************************************)
\* GATHER_TIME, in half seconds (5.0 s)
GATHER_TIME == 10

\* the most a hauler takes from the stockpile at once
HaulLoad == 5

Event(w, i, kind) == [w EXCEPT !.last_event = [citizen |-> i, kind |-> kind]]

\* JobManager._get_stockpile_location, in half tiles
get_stockpile_location(blds) ==
    IF \E k \in 1..Len(blds) : blds[k].building_type = "wagon"
    THEN get_center(blds[CHOOSE k \in 1..Len(blds) :
                            /\ blds[k].building_type = "wagon"
                            /\ \A j \in 1..(k - 1) : blds[j].building_type # "wagon"])
    ELSE <<10, 10>>

\* JobManager._move_citizen_to
move_citizen_to(c, t, tiles, blds) ==
    IF c.current_path = <<>> \/ c.target # t
    THEN LET path == find_path(TileOf(c.x), TileOf(c.y), TileOf(t[1]), TileOf(t[2]),
                               tiles, blds)
         IN set_target(c, t, path)
    ELSE c

\* does the stockpile hold a kind that building b still needs?
HaulableFor(b, res) ==
    \E k \in KindSet : get_required_materials(b)[k] > 0 /\ res[k] > 0

\* JobManager._find_material_hauling_task: the registry place of the first
\* Planned building needing something the stockpile has, or 0
find_material_hauling_task(c, blds, res) ==
    IF ~c.can_haul THEN 0
    ELSE LET cand == {k \in 1..Len(blds) :
                        blds[k].state = "planned" /\ HaulableFor(blds[k], res)}
         IN IF cand = {} THEN 0 ELSE CHOOSE k \in cand : \A j \in cand : k <= j

\* the key of min(): squared distance of the citizen to (x, y), a tile
KeyTo(c, x, y) == DistSq(c.x, c.y, 2 * x, 2 * y)

\* find_construction_task taking the first ready building, not the nearest
first_ready_building(c, blds) ==
    IF ~c.can_construct THEN 0
    ELSE LET ready == {k \in 1..Len(blds) :
                         \/ can_start_construction(blds[k])
                         \/ blds[k].state = "under_construction"}
         IN IF ready = {} THEN 0 ELSE CHOOSE k \in ready : \A j \in ready : k <= j

\* JobManager._find_construction_task; min(ready_buildings, key) is the first
\* of the nearest
find_construction_task(c, blds) ==
    IF ~c.can_construct THEN 0
    ELSE LET ready == {k \in 1..Len(blds) :
                         \/ can_start_construction(blds[k])
                         \/ blds[k].state = "under_construction"}
         IN IF ready = {} THEN 0
            ELSE CHOOSE k \in ready :
                   \A j \in ready :
                      \/ KeyTo(c, blds[k].x, blds[k].y) < KeyTo(c, blds[j].x, blds[j].y)
                      \/ /\ KeyTo(c, blds[k].x, blds[k].y) = KeyTo(c, blds[j].x, blds[j].y)
                         /\ k <= j

\* available_nodes without the test of currently_being_gathered
available_nodes_claimed_too(nodes) ==
    {n \in 1..Len(nodes) : nodes[n].designated /\ ~nodes[n].is_depleted}

\* the nodes _find_gathering_task may hand out
available_nodes(nodes) ==
    {n \in 1..Len(nodes) : /\ nodes[n].designated
                           /\ ~nodes[n].is_depleted
                           /\ ~nodes[n].currently_being_gathered}

\* JobManager._find_gathering_task: the first of the nearest available nodes, or 0
find_gathering_task(c, nodes) ==
    IF ~c.can_gather THEN 0
    ELSE LET avail == available_nodes(nodes)
         IN IF avail = {} THEN 0
            ELSE CHOOSE n \in avail :
                   \A m \in avail :
                      \/ KeyTo(c, nodes[n].x, nodes[n].y) < KeyTo(c, nodes[m].x, nodes[m].y)
                      \/ /\ KeyTo(c, nodes[n].x, nodes[n].y) = KeyTo(c, nodes[m].x, nodes[m].y)
                         /\ n <= m

\* JobManager._assign_work
assign_work(w, i) ==
    LET c == w.citizens[i]
        haul == find_material_hauling_task(c, w.buildings, w.resources)
        cons == find_construction_task(c, w.buildings)
        gath == find_gathering_task(c, w.resource_nodes)
    IN IF haul # 0
       THEN Event([w EXCEPT !.citizens[i] = assign_task(c, BuildingTask(haul), "hauling")],
                  i, "assign_hauling")
       ELSE IF cons # 0
       THEN Event([w EXCEPT !.citizens[i] =
                                assign_task(c, BuildingTask(cons), "construction")],
                  i, "assign_construction")
       ELSE IF gath # 0
       THEN Event([w EXCEPT !.citizens[i] = assign_task(c, NodeTask(gath), "gathering"),
                            !.resource_nodes[gath] = assign_citizen(@, c.id)],
                  i, "assign_gathering")
       ELSE Event(w, i, "no_work")

\* the first kind, in the order of the needed dict, that the stockpile holds
PickupKind(b, res) ==
    LET ks == {k \in 1..Len(Kinds) :
                  get_required_materials(b)[Kinds[k]] > 0 /\ res[Kinds[k]] > 0}
    IN IF ks = {} THEN NONE ELSE Kinds[CHOOSE k \in ks : \A j \in ks : k <= j]

\* JobManager._update_hauling
update_hauling(w, i, tiles) ==
    LET c == w.citizens[i]
        k == c.current_task.ref
    IN IF c.current_task.kind # "building"
       THEN Event([w EXCEPT !.citizens[i] = clear_task(c)], i, "stale_task")
       ELSE LET b == w.buildings[k]
            IN IF c.carrying_resource = NONE
               THEN IF ~has_reached_target(c)
                    THEN Event([w EXCEPT !.citizens[i] =
                                   move_citizen_to(c, get_stockpile_location(w.buildings),
                                                   tiles, w.buildings)],
                               i, "haul_move")
                    ELSE LET kind == PickupKind(b, w.resources)
                         IN IF kind = NONE THEN Event(w, i, "haul_wait")
                            ELSE LET amount_to_take ==
                                        Min2(Min2(HaulLoad, w.resources[kind]),
                                             get_required_materials(b)[kind])
                                 IN Event([w EXCEPT
                                             !.citizens[i].carrying_resource = kind,
                                             !.citizens[i].carrying_amount = amount_to_take,
                                             !.citizens[i].state = "carrying",
                                             !.resources[kind] = @ - amount_to_take],
                                          i, "haul_pickup")
               ELSE IF ~has_reached_target(c)
                    THEN Event([w EXCEPT !.citizens[i] =
                                   move_citizen_to(c, get_center(b), tiles, w.buildings)],
                               i, "haul_move")
                    ELSE LET b2 == deliver_material(b, c.carrying_resource,
                                                    c.carrying_amount)
                             c2 == [c EXCEPT !.carrying_resource = NONE,
                                             !.carrying_amount = 0]
                         IN Event([w EXCEPT
                                     !.buildings[k] = b2,
                                     !.citizens[i] = IF ~NeedsSomething(b2)
                                                     THEN clear_task(c2) ELSE c2],
                                  i, "haul_deliver")

\* the transition of _update_construction's first check
StartIfReady(b) ==
    IF b.state = "planned" /\ has_all_materials(b)
    THEN [b EXCEPT !.state = "under_construction"] ELSE b

\* work_done = 10.0 * (1 + skill / 20) * delta_time, in quarter units
WorkDone(c, dt) == (20 + c.construction_skill) * dt

\* JobManager._update_construction
update_construction(w, i, dt) ==
    LET c == w.citizens[i]
        k == c.current_task.ref
    IN IF c.current_task.kind # "building"
       THEN Event([w EXCEPT !.citizens[i] = clear_task(c)], i, "stale_task")
       ELSE LET b == StartIfReady(w.buildings[k])
            IN IF b.state = "under_construction"
               THEN IF ~has_reached_target(c)
                    THEN Event([w EXCEPT !.buildings[k] = b,
                                         !.citizens[i] = set_target(c, get_center(b), <<>>)],
                               i, "construct_move")
                    ELSE LET b2 == add_construction_progress(b, WorkDone(c, dt))
                             c2 == [c EXCEPT !.state = "working"]
                         IN Event([w EXCEPT
                                     !.buildings[k] = b2,
                                     !.citizens[i] = IF b2.state = "complete"
                                                     THEN clear_task(c2) ELSE c2],
                                  i, "construct_work")
               ELSE IF b.state = "complete"
               THEN Event([w EXCEPT !.citizens[i] = clear_task(c)], i, "construct_done")
               ELSE Event(w, i, "construct_wait")

\* JobManager._update_gathering
update_gathering(w, i, dt, tiles) ==
    LET c == w.citizens[i]
        n == c.current_task.ref
    IN IF c.current_task.kind # "node"
       THEN Event([w EXCEPT !.citizens[i] = clear_task(c)], i, "stale_task")
       ELSE IF c.carrying_resource = NONE
       THEN LET node == w.resource_nodes[n]
                c1 == move_citizen_to(c, <<2 * node.x, 2 * node.y>>, tiles, w.buildings)
            IN IF ~has_reached_target(c1)
               THEN Event([w EXCEPT !.citizens[i] = c1], i, "gather_move")
               ELSE LET c2 == [c1 EXCEPT !.state = "working"]
                        t0 == IF w.citizen_gather_time[i] < 0 THEN 0
                              ELSE w.citizen_gather_time[i]
                        t1 == t0 + dt
                    IN IF t1 < GATHER_TIME
                       THEN Event([w EXCEPT !.citizens[i] = c2,
                                            !.citizen_gather_time[i] = t1],
                                  i, "gather_work")
                       ELSE LET g == gather(node)
                                node2 == unassign_citizen(g.node)
                            IN IF g.kind # NONE /\ g.amount > 0
                               THEN Event([w EXCEPT
                                             !.resource_nodes[n] = node2,
                                             !.citizen_gather_time[i] = -1,
                                             !.citizens[i] =
                                                [c2 EXCEPT !.carrying_resource = g.kind,
                                                           !.carrying_amount = g.amount,
                                                           !.state = "carrying",
                                                           !.target = <<>>]],
                                          i, "harvest")
                               ELSE Event([w EXCEPT
                                             !.resource_nodes[n] = node2,
                                             !.citizen_gather_time[i] = -1,
                                             !.citizens[i] = clear_task(c2)],
                                          i, "harvest_nothing")
       ELSE LET c1 == move_citizen_to(c, get_stockpile_location(w.buildings),
                                      tiles, w.buildings)
            IN IF ~has_reached_target(c1)
               THEN Event([w EXCEPT !.citizens[i] = c1], i, "carry_move")
               ELSE LET cleared == clear_task([c1 EXCEPT !.carrying_resource = NONE,
                                                         !.carrying_amount = 0])
                    IN IF can_add_resources(w.buildings, w.resources, c.carrying_amount)
                       THEN Event([w EXCEPT
                                     !.resources[c.carrying_resource] =
                                         @ + c.carrying_amount,
                                     !.citizens[i] = cleared],
                                  i, "deposit")
                       ELSE Event([w EXCEPT !.citizens[i] = cleared], i, "drop")

\* JobManager._update_citizen_task
update_citizen_task(w, i, dt, tiles) ==
    LET job == w.citizens[i].current_job
    IN IF job = "hauling" THEN update_hauling(w, i, tiles)
       ELSE IF job = "construction" THEN update_construction(w, i, dt)
       ELSE IF job = "gathering" THEN update_gathering(w, i, dt, tiles)
       ELSE Event(w, i, "no_job")

\* the body of JobManager.update's loop, for citizen i
update_citizen(w, i, dt, tiles) ==
    LET w1 == [w EXCEPT !.citizens[i] = CitizenUpdate(@, dt)]
        c == w1.citizens[i]
    IN IF c.state = "idle" /\ c.current_task = NoTask
       THEN assign_work(w1, i)
       ELSE IF c.current_task # NoTask
       THEN update_citizen_task(w1, i, dt, tiles)
       ELSE Event(w1, i, "skipped")

(***************************************************************************)
(* The simulation: GameState.update driving JobManager.update              *)
(***************************************************************************)
World == [citizens |-> citizens, buildings |-> buildings,
          resource_nodes |-> resource_nodes, resources |-> resources,
          citizen_gather_time |-> citizen_gather_time, last_event |-> last_event]

\* bounds of the simulated settlement
SimWidth == 10

SimHeight == 5

NumCitizens == 2

CitizenIds == 1..NumCitizens

\* delta_time values (after game_speed), in half seconds, for which
\* move_speed * delta_time spans the grid
DeltaTimes == {6, 10}

\* the construction_skill drawn for citizen i: a sample of randint(0, 10)
SkillOf(i) == (7 * i) % 11

NoEvent == [citizen |-> 0, kind |-> "start"]

\* GameState._spawn_starting_wagon
Wagon(id, tiles) ==
    [NewBuilding(id, "wagon", Width(tiles) \div 2, Height(tiles) \div 2)
        EXCEPT !.state = "complete", !.is_active = TRUE]

\* _can_place_building without the loop over the other buildings
can_place_on_free_or_taken(type, tile_x, tile_y, tiles, blds) ==
    LET def == BUILDING_DEFINITIONS[type]
    IN /\ ~(tile_x < 0 \/ tile_y < 0
            \/ tile_x + def.width > Width(tiles)
            \/ tile_y + def.height > Height(tiles))
       /\ \A dy \in 0..(def.height - 1) : \A dx \in 0..(def.width - 1) :
             TileAt(tiles, tile_x + dx, tile_y + dy) \in {"grass", "dirt", "sand"}

\* GameState._can_place_building
can_place_building(type, tile_x, tile_y, tiles, blds) ==
    LET def == BUILDING_DEFINITIONS[type]
    IN /\ ~(tile_x < 0 \/ tile_y < 0
            \/ tile_x + def.width > Width(tiles)
            \/ tile_y + def.height > Height(tiles))
       /\ \A dy \in 0..(def.height - 1) : \A dx \in 0..(def.width - 1) :
             /\ TileAt(tiles, tile_x + dx, tile_y + dy) \in {"grass", "dirt", "sand"}
             /\ \A k \in 1..Len(blds) : ~occupies_tile(blds[k], tile_x + dx, tile_y + dy)

\* GameState.place_building: the registry and next_building_id afterwards
place_building(type, tile_x, tile_y, view, tiles, blds, next_id) ==
    IF view # "local" THEN [ok |-> FALSE, buildings |-> blds, next_id |-> next_id]
    ELSE IF ~can_place_building(type, tile_x, tile_y, tiles, blds)
    THEN [ok |-> FALSE, buildings |-> blds, next_id |-> next_id]
    ELSE [ok |-> TRUE, buildings |-> Append(blds, NewBuilding(next_id, type, tile_x, tile_y)),
          next_id |-> next_id + 1]

\* the stockpile of a new game
NewGameResources == [NoMaterials EXCEPT !["wood"] = 100, !["stone"] = 50, !["food"] = 100]

\* terrain of the simulated settlement
SimTiles == UniformTiles(SimWidth, SimHeight, "grass")

\* the resource nodes of the settlement, none designated yet
SimNodes ==
    <<NewResource("tree", SimWidth - 1, 0),
      NewResource("stone", SimWidth - 1, SimHeight - 1)>>

\* a warehouse site that lacks its last five stone: sixteen hauls of five
\* make it fully supplied, fifteen leave this
SuppliedWarehouse(id) ==
    [NewBuilding(id, "warehouse", 0, 0)
        EXCEPT !.materials_delivered = [NoMaterials EXCEPT !["wood"] = 50,
                                                          !["stone"] = 25]]

\* Games in progress: a new game; a game whose gatherers have brought the
\* stockpile close to the base capacity; a game that also has a warehouse
\* site nearly supplied.  Each is the registry, the next building id and the
\* stockpile.
Scenarios ==
    {[buildings |-> <<Wagon(1, SimTiles)>>, next_id |-> 2,
      resources |-> NewGameResources],
     [buildings |-> <<Wagon(1, SimTiles)>>, next_id |-> 2,
      resources |-> [NewGameResources EXCEPT !["stone"] = 50 + 8 * 30]],
     [buildings |-> <<Wagon(1, SimTiles), SuppliedWarehouse(2)>>, next_id |-> 3,
      resources |-> [NewGameResources EXCEPT !["wood"] = 100 - 50,
                                             !["stone"] = 50 - 25 + 8 * 40]]}

\* the placements the player asks for during the game: <<type, x, y>>
PlaceRequests == {<<"lumber_camp", SimWidth \div 2, 0>>}

SimInit ==
    /\ local_tiles = SimTiles
    /\ \E sc \in Scenarios :
         /\ buildings = sc.buildings
         /\ next_building_id = sc.next_id
         /\ resources = sc.resources
    /\ resource_nodes = SimNodes
    /\ citizens = [i \in CitizenIds |->
                      NewCitizen(i, SimWidth \div 2 + 2, SimHeight \div 2 + (i % 2),
                                 SkillOf(i))]
    /\ citizen_gather_time = [i \in CitizenIds |-> -1]
    /\ current_view = "local"
    /\ idx = 1
    /\ delta_time = 0
    /\ last_event = NoEvent
    /\ astar = NONE
    /\ gen = NONE

\* one pass of the loop of JobManager.update, for citizen idx
StepCitizen(dt) ==
    \E w \in {update_citizen(World, idx, dt, local_tiles)} :
       /\ citizens' = w.citizens
       /\ buildings' = w.buildings
       /\ resource_nodes' = w.resource_nodes
       /\ resources' = w.resources
       /\ citizen_gather_time' = w.citizen_gather_time
       /\ last_event' = w.last_event
       /\ idx' = IF idx = NumCitizens THEN 1 ELSE idx + 1
       /\ delta_time' = IF idx = NumCitizens THEN 0 ELSE dt
       /\ UNCHANGED <<local_tiles, next_building_id, current_view, astar, gen>>

\* GameState.update: a tick starts with its delta_time and the first citizen
TickBegin ==
    /\ idx = 1
    /\ \E dt \in DeltaTimes : StepCitizen(dt)

\* ... and goes on through the registry
TickNext ==
    /\ idx > 1
    /\ StepCitizen(delta_time)

\* Game._apply_designation -> DesignationManager.add_designation, between ticks
Designate ==
    /\ idx = 1
    /\ \E n \in 1..Len(resource_nodes) :
         /\ ~resource_nodes[n].designated
         /\ resource_nodes[n].resource_type \in {"tree", "stone", "berry_bush"}
         /\ resource_nodes' = [resource_nodes EXCEPT ![n].designated = TRUE]
    /\ UNCHANGED <<citizens, buildings, resources, citizen_gather_time, local_tiles,
                   next_building_id, current_view, idx, delta_time, last_event,
                   astar, gen>>

\* GameState.place_building, between ticks
Place ==
    /\ idx = 1
    /\ \E p \in PlaceRequests :
         \E r \in {place_building(p[1], p[2], p[3], current_view, local_tiles,
                                  buildings, next_building_id)} :
            /\ buildings' = r.buildings
            /\ next_building_id' = r.next_id
            /\ last_event' = [citizen |-> 0,
                              kind |-> IF r.ok THEN "placed" ELSE "refused"]
    /\ UNCHANGED <<citizens, resource_nodes, resources, citizen_gather_time,
                   local_tiles, current_view, idx, delta_time, astar, gen>>

SimNext == TickBegin \/ TickNext \/ Designate \/ Place

Spec == SimInit /\ [][SimNext]_vars

(***************************************************************************)
(* Properties of the simulation                                            *)
(***************************************************************************)
\* the citizens in the harvest phase on node n
Harvesters(n) ==
    {i \in CitizenIds : /\ citizens[i].current_job = "gathering"
                        /\ citizens[i].current_task = NodeTask(n)
                        /\ citizens[i].carrying_resource = NONE}

\* C1: after every citizen's step of every tick, each resource node has at
\* most one citizen in the harvest phase on it (job gathering, the node as
\* task, no cargo), and a node whose currently_being_gathered flag is set has
\* exactly that citizen, whose id is the node's assigned_citizen_id.
C1_SingleHarvester ==
    \A n \in 1..Len(resource_nodes) :
       /\ Cardinality(Harvesters(n)) <= 1
       /\ resource_nodes[n].currently_being_gathered =>
             /\ Harvesters(n) # {}
             /\ \A i \in Harvesters(n) :
                   citizens[i].id = resource_nodes[n].assigned_citizen_id

\* a citizen was processed while another citizen held a claim on a
\* designated node that still has something to give
C1_Witness ==
    /\ last_event.kind \in {"assign_gathering", "no_work"}
    /\ \E n \in 1..Len(resource_nodes) :
          /\ resource_nodes[n].currently_being_gathered
          /\ resource_nodes[n].designated
          /\ ~resource_nodes[n].is_depleted
          /\ resource_nodes[n].assigned_citizen_id # citizens[last_event.citizen].id
          /\ citizens[last_event.citizen].current_task # NodeTask(n)

IsCitizenStep == idx' # idx

\* C3: a building leaves Planned only in a step after which it has all its
\* materials, and becomes Complete only in a step after which its
\* construction_progress has reached the construction_work of its definition,
\* however many citizens haul to it and build it.
C3_ConstructionOrdering ==
    [][\A k \in 1..Len(buildings) :
          /\ (buildings[k].state = "planned" /\ buildings'[k].state # "planned")
                => /\ has_all_materials(buildings[k])
                   /\ has_all_materials(buildings'[k])
          /\ (buildings[k].state # "complete" /\ buildings'[k].state = "complete")
                => buildings'[k].construction_progress
                      >= 4 * BUILDING_DEFINITIONS[buildings'[k].building_type].construction_work]_vars

\* a construction step has just completed a building that the citizens had
\* to supply first
C3_Witness ==
    /\ last_event.kind = "construct_work"
    /\ \E k \in 1..Len(buildings) :
          /\ buildings[k].state = "complete"
          /\ buildings[k].building_type # "wagon"
          /\ citizens[last_event.citizen].current_task = NoTask

\* the citizen processed by the step has arrived at the stockpile with the
\* cargo of a gathering trip
ArrivesWithCargo ==
    /\ IsCitizenStep
    /\ last_event'.kind \in {"deposit", "drop"}
    /\ citizens[idx].current_job = "gathering"
    /\ citizens[idx].carrying_resource # NONE

\* C8: when a gathering citizen carrying amount a arrives at the stockpile,
\* the step clears its cargo and its task and leaves it Idle, and leaves every
\* node's amount_remaining as it was; if the stockpile total plus a exceeds
\* the capacity every stockpile amount stays as it was, otherwise the amount
\* of the carried resource grows by exactly a and no other amount changes.
C8_DepositOrDrop ==
    [][ArrivesWithCargo =>
          LET c == citizens[idx]
              a == c.carrying_amount
          IN /\ citizens'[idx].carrying_resource = NONE
             /\ citizens'[idx].carrying_amount = 0
             /\ citizens'[idx].current_task = NoTask
             /\ citizens'[idx].state = "idle"
             /\ \A n \in 1..Len(resource_nodes) :
                   resource_nodes'[n].amount_remaining =
                      resource_nodes[n].amount_remaining
             /\ buildings' = buildings
             /\ IF get_current_storage_used(resources) + a
                      <= get_total_storage_capacity(buildings)
                THEN resources' = [resources EXCEPT ![c.carrying_resource] = @ + a]
                ELSE resources' = resources]_vars

\* a cargo has just been dropped at a full stockpile
C8_Witness ==
    /\ last_event.kind = "drop"
    /\ get_current_storage_used(resources) > get_total_storage_capacity(buildings) - 4
    /\ citizens[last_event.citizen].state = "idle"

\* what the stockpile, the registry and the nodes offer the citizen of the step
HaulingOffered ==
    \E k \in 1..Len(buildings) :
       /\ buildings[k].state = "planned"
       /\ \E r \in KindSet :
             /\ buildings[k].materials_delivered[r]
                   < BUILDING_DEFINITIONS[buildings[k].building_type].required_resources[r]
             /\ resources[r] >= 1

ReadyBuildings ==
    {k \in 1..Len(buildings) :
        \/ buildings[k].state = "under_construction"
        \/ /\ buildings[k].state = "planned"
           /\ \A r \in KindSet :
                 buildings[k].materials_delivered[r]
                    >= BUILDING_DEFINITIONS[buildings[k].building_type].required_resources[r]}

UnclaimedNodes ==
    {n \in 1..Len(resource_nodes) :
        /\ resource_nodes[n].designated
        /\ ~resource_nodes[n].is_depleted
        /\ ~resource_nodes[n].currently_being_gathered}

\* squared distance, in half tiles, of the citizen of the step to tile (x, y)
Away(x, y) ==
    (citizens[idx].x - 2 * x) * (citizens[idx].x - 2 * x)
       + (citizens[idx].y - 2 * y) * (citizens[idx].y - 2 * y)

StateRank(b) ==
    IF b.state = "planned" THEN 0 ELSE IF b.state = "under_construction" THEN 1 ELSE 2

ProgressSound(b) ==
    /\ b.state \in {"planned", "under_construction", "complete"}
    /\ 0 <= b.construction_progress /\ b.construction_progress <= WorkQ(b)
    /\ b.state = "complete" => b.is_active

\* C12: over the ticks a building's state never goes back in the order
\* Planned, UnderConstruction, Complete; its construction_progress never
\* decreases, never exceeds the construction_work of its definition, and is
\* left as it is by every step that leaves the building Planned or finds it
\* Complete; a Complete building is active.
C12_BuildingProgress ==
    /\ \A k \in 1..Len(buildings) : ProgressSound(buildings[k])
    /\ [][/\ \A k \in 1..Len(buildings') : ProgressSound(buildings'[k])
          /\ \A k \in 1..Len(buildings) :
                /\ StateRank(buildings'[k]) >= StateRank(buildings[k])
                /\ buildings'[k].construction_progress >= buildings[k].construction_progress
                /\ (buildings'[k].state = "planned" \/ buildings[k].state = "complete")
                      => buildings'[k].construction_progress
                            = buildings[k].construction_progress]_vars

\* a building is half built: work has gone into it and more is needed
C12_Witness ==
    \E k \in 1..Len(buildings) :
       /\ buildings[k].state = "under_construction"
       /\ 0 < buildings[k].construction_progress
       /\ buildings[k].construction_progress < WorkQ(buildings[k])

(***************************************************************************)
(* The simulation on a map with an islet that no path leads to             *)
(***************************************************************************)
\* bounds of the map
WalkWidth == 7

WalkHeight == 3

\* a tree stands on the corner tile; Water closes the corner off
IsletWater == {<<WalkWidth - 2, 0>>, <<WalkWidth - 2, 1>>, <<WalkWidth - 1, 1>>}

WalkTiles ==
    [y \in 1..WalkHeight |-> [x \in 1..WalkWidth |->
        IF <<x - 1, y - 1>> \in IsletWater THEN "water"
        ELSE IF x = WalkWidth /\ y = 1 THEN "forest" ELSE "grass"]]

WalkNodes ==
    <<NewResource("tree", WalkWidth - 1, 0), NewResource("stone", 0, WalkHeight - 1)>>

\* a new game on this map
WalkInit ==
    /\ local_tiles = WalkTiles
    /\ buildings = <<Wagon(1, WalkTiles)>>
    /\ next_building_id = 2
    /\ resources = NewGameResources
    /\ resource_nodes = WalkNodes
    /\ citizens = [i \in CitizenIds |-> NewCitizen(i, i, 1, SkillOf(i))]
    /\ citizen_gather_time = [i \in CitizenIds |-> -1]
    /\ current_view = "local"
    /\ idx = 1
    /\ delta_time = 0
    /\ last_event = NoEvent
    /\ astar = NONE
    /\ gen = NONE

SpecWalk == WalkInit /\ [][SimNext]_vars

\* the citizen of the step walks to a target for which find_path gave None
PathRefused(c) == c.state = "walking" /\ c.target # <<>> /\ c.current_path = <<>>

\* C13: a citizen whose movement request got None from the pathfinder stands
\* still: the ticks leave its position as it is until a find_path call for it
\* returns a path.
C13_StandStillOnNone ==
    [][\A i \in 1..Len(citizens) :
          PathRefused(citizens[i]) =>
             /\ citizens'[i].x = citizens[i].x
             /\ citizens'[i].y = citizens[i].y]_vars

(***************************************************************************)
(* The simulation with callers of Citizen.assign_task other than the job   *)
(* manager, which hand a citizen a task that does not fit the job          *)
(***************************************************************************)
MaxReassign == 1

\* a task reference that is neither a Building nor a Resource
OtherTask == [kind |-> "other", ref |-> 0]

\* current_task is not what the handler of current_job works on
Mismatched(task, job) ==
    /\ task # NoTask
    /\ \/ job \in {"hauling", "construction"} /\ task.kind # "building"
       \/ job = "gathering" /\ task.kind # "node"

\* a game in progress that has a building site
StaleInit ==
    /\ local_tiles = SimTiles
    /\ \E sc \in Scenarios :
         /\ Len(sc.buildings) > 1
         /\ buildings = sc.buildings
         /\ next_building_id = sc.next_id
         /\ resources = sc.resources
    /\ resource_nodes = SimNodes
    /\ citizens = [i \in CitizenIds |->
                      NewCitizen(i, SimWidth \div 2 + 2, SimHeight \div 2 + (i % 2),
                                 SkillOf(i))]
    /\ citizen_gather_time = [i \in CitizenIds |-> -1]
    /\ current_view = "local"
    /\ idx = 1
    /\ delta_time = 0
    /\ last_event = NoEvent
    /\ astar = NONE
    /\ gen = 0

\* citizen.assign_task(task, job_type) called between ticks
Reassign ==
    /\ idx = 1
    /\ gen < MaxReassign
    /\ \E i \in 1..Len(citizens), job \in {"hauling", "construction", "gathering"},
          task \in {BuildingTask(k) : k \in 1..Len(buildings)}
                   \cup {NodeTask(n) : n \in 1..Len(resource_nodes)}
                   \cup {OtherTask} :
         /\ Mismatched(task, job)
         /\ citizens' = [citizens EXCEPT ![i] = assign_task(@, task, job)]
    /\ gen' = gen + 1
    /\ UNCHANGED <<buildings, resource_nodes, resources, citizen_gather_time,
                   local_tiles, next_building_id, current_view, idx, delta_time,
                   last_event, astar>>

StaleNext == TickBegin \/ TickNext \/ Designate \/ Reassign

SpecStale == StaleInit /\ [][StaleNext]_vars

\* C16: when the tick reaches a citizen whose current_task does not fit its
\* job (not a Building under Hauling or Construction, not a ResourceNode
\* under Gathering), the pass clears the task: task and job none, state
\* Idle, target and path dropped; it ends as a stale-task pass, and the
\* stockpile, the buildings and the resource nodes are as before.
C16_StaleTaskCleared ==
    [][(idx' # idx /\ Mismatched(citizens[idx].current_task, citizens[idx].current_job))
          => /\ citizens'[idx].current_task = NoTask
             /\ citizens'[idx].current_job = NONE
             /\ citizens'[idx].state = "idle"
             /\ citizens'[idx].target = <<>>
             /\ citizens'[idx].current_path = <<>>
             /\ citizens'[idx].path_index = 0
             /\ last_event' = [citizen |-> idx, kind |-> "stale_task"]
             /\ resources' = resources
             /\ buildings' = buildings
             /\ resource_nodes' = resource_nodes
             /\ \A j \in 1..Len(citizens) : j # idx => citizens'[j] = citizens[j]]_vars

\* a citizen that was on its way with a load has just had a stale task cleared
C16_Witness ==
    /\ last_event.kind = "stale_task"
    /\ \E i \in 1..Len(citizens) :
          /\ last_event.citizen = i
          /\ citizens[i].current_task = NoTask
          /\ citizens[i].state = "idle"
          /\ citizens[i].carrying_resource # NONE

(***************************************************************************)
(* The pathfinder on its own: find_path, one pass of its loop per step     *)
(***************************************************************************)
\* bounds of the grids searched
PathWidth == 3

PathHeight == 3

\* the grids: grass, with water on any of these tiles
PondTiles == {<<1, 0>>, <<1, 1>>, <<2, 2>>}

PathGrids ==
    {[y \in 1..PathHeight |-> [x \in 1..PathWidth |->
         IF <<x - 1, y - 1>> \in pond THEN "water" ELSE "grass"]] :
       pond \in SUBSET PondTiles}

\* the registries: none, or one placed building
PathRegistries == {<<>>, <<NewBuilding(1, "mine", PathWidth - 2, 0)>>}

\* start and goal: every tile of the grid, and two points off it
PathPoints ==
    ((0..(PathWidth - 1)) \X (0..(PathHeight - 1)))
       \cup {<<-1, 0>>, <<PathWidth, PathHeight>>}

\* the entries heappop may return: floats that differ by rounding only, and
\* the heap's order among equal f_cost, leave any of the least entries
LeastEntries(open) == {k \in 1..Len(open) : open[k].f_cost = MinF(open)}

PathInit ==
    /\ local_tiles \in PathGrids
    /\ buildings \in PathRegistries
    /\ \E s \in PathPoints, g \in PathPoints :
          astar = AStarBegin(s[1], s[2], g[1], g[2], local_tiles, buildings)
    /\ citizens = <<>>
    /\ resource_nodes = <<>>
    /\ resources = NoMaterials
    /\ citizen_gather_time = <<>>
    /\ next_building_id = Len(buildings) + 1
    /\ current_view = "local"
    /\ idx = 1
    /\ delta_time = 0
    /\ last_event = NoEvent
    /\ gen = NONE

\* one pass of the while loop of find_path
AStarPop ==
    /\ astar.status = "running"
    /\ astar.open_list # <<>>
    /\ astar.iterations < MaxIterations
    /\ \E k \in LeastEntries(astar.open_list) :
          astar' = AStarStep(astar, k, local_tiles)
    /\ UNCHANGED <<citizens, buildings, resource_nodes, resources,
                   citizen_gather_time, local_tiles, next_building_id,
                   current_view, idx, delta_time, last_event, gen>>

\* the loop ends without the goal: return None
AStarGiveUp ==
    /\ astar.status = "running"
    /\ astar.open_list = <<>> \/ astar.iterations >= MaxIterations
    /\ astar' = AStarStep(astar, 0, local_tiles)
    /\ UNCHANGED <<citizens, buildings, resource_nodes, resources,
                   citizen_gather_time, local_tiles, next_building_id,
                   current_view, idx, delta_time, last_event, gen>>

PathNext == AStarPop \/ AStarGiveUp

SpecPath == PathInit /\ [][PathNext]_vars

\* C4: every waypoint of a path find_path returns, the start tile and the
\* one-element path of start = goal included, is in bounds, is not Water, and
\* is under no building footprint unless it is the goal tile.
C4_PathValidity ==
    (astar.status = "done" /\ astar.result # <<>>) =>
       \A i \in 1..Len(astar.result) :
          LET t == astar.result[i]
          IN /\ InBounds(local_tiles, t[1], t[2])
             /\ TileAt(local_tiles, t[1], t[2]) # "water"
             /\ (\E k \in 1..Len(buildings) : occupies_tile(buildings[k], t[1], t[2]))
                   => t = astar.goal

\* two tiles are distinct 8-neighbours
Adjacent(a, b) ==
    /\ a # b
    /\ a[1] - b[1] \in -1..1
    /\ a[2] - b[2] \in -1..1

\* C28: every path find_path returns is a connected walk from start to goal:
\* the first waypoint is the start tile, the last is the goal tile, every two
\* consecutive waypoints are distinct 8-neighbours, and no tile occurs twice.
C28_PathIsWalk ==
    (astar.status = "done" /\ astar.result # <<>>) =>
       LET path == astar.result
       IN /\ path[1] = astar.start
          /\ path[Len(path)] = astar.goal
          /\ \A i \in 1..(Len(path) - 1) : Adjacent(path[i], path[i + 1])
          /\ \A i, j \in 1..Len(path) : path[i] = path[j] => i = j

\* a path that goes around water or a building: longer than the straight
\* way between its ends
C28_Witness ==
    /\ astar.status = "done"
    /\ Len(astar.result) >= 4
    /\ astar.result[1] = astar.start
    /\ astar.result[Len(astar.result)] = astar.goal

(***************************************************************************)
(* Resource nodes on their own: any sequence of gather() calls             *)
(***************************************************************************)
\* the number of nodes gathered from
NumNodes == 2

\* Resource.from_dict: the constructor runs __post_init__, which sets
\* amount_remaining to max_amount again; is_depleted is then taken from the
\* saved data
LoadedResource(type, x, y, depleted) ==
    [NewResource(type, x, y) EXCEPT !.is_depleted = depleted]

\* nodes as generated, and nodes as loaded from a save
GatherInit ==
    /\ \E types \in [1..NumNodes -> ResourceType], dep \in [1..NumNodes -> BOOLEAN] :
          resource_nodes = [n \in 1..NumNodes |->
                               LoadedResource(types[n], n, 0, dep[n])]
    /\ gen = [node |-> 0, kind |-> NONE, amount |-> 0]
    /\ citizens = <<>>
    /\ buildings = <<>>
    /\ resources = NoMaterials
    /\ citizen_gather_time = <<>>
    /\ local_tiles = <<>>
    /\ next_building_id = 1
    /\ current_view = "local"
    /\ idx = 1
    /\ delta_time = 0
    /\ last_event = NoEvent
    /\ astar = NONE

\* a call of gather() on node n; gen keeps what it returned
Gather(n) ==
    /\ \E g \in {gather(resource_nodes[n])} :
          /\ resource_nodes' = [resource_nodes EXCEPT ![n] = g.node]
          /\ gen' = [node |-> n, kind |-> g.kind, amount |-> g.amount]
    /\ UNCHANGED <<citizens, buildings, resources, citizen_gather_time, local_tiles,
                   next_building_id, current_view, idx, delta_time, last_event,
                   astar>>

GatherNext == \E n \in 1..NumNodes : Gather(n)

SpecGather == GatherInit /\ [][GatherNext]_vars

\* C5: no gather() call raises amount_remaining or takes it below 0; a node
\* whose amount_remaining is 0 or less is depleted and stays so, and a call on
\* it returns (None, 0) and leaves amount_remaining as it was.
C5_ResourceMonotone ==
    [][\A n \in 1..NumNodes :
          LET r == resource_nodes[n]
              r2 == resource_nodes'[n]
          IN /\ r2.amount_remaining <= r.amount_remaining
             /\ r2.amount_remaining >= 0
             /\ r2.amount_remaining <= 0 => r2.is_depleted
             /\ r.is_depleted => r2.is_depleted
             /\ (r.amount_remaining <= 0 /\ gen'.node = n)
                   => /\ gen'.kind = NONE /\ gen'.amount = 0
                      /\ r2.amount_remaining = r.amount_remaining]_vars

\* a node has been gathered to nothing and then gathered from once more
C5_Witness ==
    /\ gen.node > 0
    /\ gen.kind = NONE
    /\ resource_nodes[gen.node].amount_remaining = 0
    /\ resource_nodes[gen.node].is_depleted

(***************************************************************************)
(* Resource nodes saved and loaded between gather() calls                  *)
(***************************************************************************)
\* freshly created nodes of any types
SaveInit ==
    /\ \E types \in [1..NumNodes -> ResourceType] :
          resource_nodes = [n \in 1..NumNodes |-> NewResource(types[n], n, 0)]
    /\ gen = [node |-> 0, kind |-> NONE, amount |-> 0]
    /\ citizens = <<>>
    /\ buildings = <<>>
    /\ resources = NoMaterials
    /\ citizen_gather_time = <<>>
    /\ local_tiles = <<>>
    /\ next_building_id = 1
    /\ current_view = "local"
    /\ idx = 1
    /\ delta_time = 0
    /\ last_event = NoEvent
    /\ astar = NONE

\* _serialize_world and _deserialize_world: every node through to_dict and
\* from_dict
SaveLoad ==
    /\ resource_nodes' = [n \in 1..Len(resource_nodes) |->
                             resource_from_dict(resource_to_dict(resource_nodes[n]))]
    /\ gen' = [node |-> 0, kind |-> "loaded", amount |-> 0]
    /\ UNCHANGED <<citizens, buildings, resources, citizen_gather_time, local_tiles,
                   next_building_id, current_view, idx, delta_time, last_event,
                   astar>>

SaveNext == GatherNext \/ SaveLoad

SpecSave == SaveInit /\ [][SaveNext]_vars

\* C14: for every node reached from a fresh one by gather() calls, partly
\* harvested ones too, from_dict(to_dict(node)) has the type, the position,
\* the amount_remaining and the is_depleted of the node.
C14_ResourceRoundTrip ==
    [][gen'.kind = "loaded" =>
          \A n \in 1..Len(resource_nodes) :
             /\ resource_nodes'[n].resource_type = resource_nodes[n].resource_type
             /\ resource_nodes'[n].x = resource_nodes[n].x
             /\ resource_nodes'[n].y = resource_nodes[n].y
             /\ resource_nodes'[n].amount_remaining = resource_nodes[n].amount_remaining
             /\ resource_nodes'[n].is_depleted = resource_nodes[n].is_depleted]_vars

(***************************************************************************)
(* TieredWorldGenerator.generate_local_map: the passes over the local grid *)
(***************************************************************************)
\* bounds of the generated grid (local_width, local_height)
LocalWidth == 16

LocalHeight == 3

\* the centre block reaches this far from (width // 2, height // 2)
CentreReach == 5

OnBorder(tiles, x, y) ==
    x = 0 \/ y = 0 \/ x = Width(tiles) - 1 \/ y = Height(tiles) - 1

InCentreBlock(tiles, x, y) ==
    /\ Width(tiles) \div 2 - CentreReach <= x /\ x <= Width(tiles) \div 2 + CentreReach
    /\ Height(tiles) \div 2 - CentreReach <= y /\ y <= Height(tiles) \div 2 + CentreReach

\* fix_edges whose loops stop one short of the last column and row
fix_edges_but_last(tiles) ==
    [y \in 1..Height(tiles) |-> [x \in 1..Width(tiles) |->
        IF (x = 1 \/ y = 1) /\ tiles[y][x] = "water" THEN "grass" ELSE tiles[y][x]]]

\* the first half of _ensure_local_playability: Water on the four edges
\* becomes Grass
fix_edges(tiles) ==
    [y \in 1..Height(tiles) |-> [x \in 1..Width(tiles) |->
        IF OnBorder(tiles, x - 1, y - 1) /\ tiles[y][x] = "water"
        THEN "grass" ELSE tiles[y][x]]]

\* the second half: what is neither Grass nor Dirt in the centre block
\* becomes Grass
fix_centre(tiles) ==
    [y \in 1..Height(tiles) |-> [x \in 1..Width(tiles) |->
        IF InCentreBlock(tiles, x - 1, y - 1) /\ tiles[y][x] \notin {"grass", "dirt"}
        THEN "grass" ELSE tiles[y][x]]]

\* TieredWorldGenerator._ensure_local_playability
ensure_local_playability(tiles) == fix_centre(fix_edges(tiles))

\* int(20 * tree_density), and nothing below a density of 0.05
NumForests(density) == IF density < 5 THEN 0 ELSE (20 * density) \div 100

\* the radii randint(3, max(3, int(8 * tree_density))) draws from
ForestRadii(density) == 3..Max2(3, (8 * density) \div 100)

\* outcomes of the draws (randint(0, width - 1), randint(0, height - 1)): a
\* tile off the centre block, the centre tile, a corner
ForestCentres ==
    {<<1, 1>>, <<LocalWidth \div 2, LocalHeight \div 2>>, <<LocalWidth - 1, 0>>}

\* outcomes of the draws random.random() > 0.3 over the tiles of one cluster
CoinPatterns == {"all", "even", "odd"}

CoinPasses(coin, x, y) ==
    \/ coin = "all"
    \/ coin = "even" /\ (x + y) % 2 = 0
    \/ coin = "odd" /\ (x + y) % 2 = 1

\* one pass of the loop of _add_forests: a cluster around (cx, cy)
forest_cluster(tiles, cx, cy, radius, coin) ==
    IF TileAt(tiles, cx, cy) # "grass" THEN tiles
    ELSE [y \in 1..Height(tiles) |-> [x \in 1..Width(tiles) |->
            IF /\ (x - 1 - cx) * (x - 1 - cx) + (y - 1 - cy) * (y - 1 - cy)
                     <= radius * radius
               /\ CoinPasses(coin, x - 1, y - 1)
               /\ tiles[y][x] = "grass"
            THEN "forest" ELSE tiles[y][x]]]

\* TieredWorldGenerator._smooth_terrain: inner Water with no Water beside it
\* becomes Grass; the neighbours are read from the grid as it was
smooth_terrain(tiles) ==
    [y \in 1..Height(tiles) |-> [x \in 1..Width(tiles) |->
        IF /\ 1 < y /\ y < Height(tiles) /\ 1 < x /\ x < Width(tiles)
           /\ tiles[y][x] = "water"
           /\ tiles[y - 1][x] # "water" /\ tiles[y + 1][x] # "water"
           /\ tiles[y][x - 1] # "water" /\ tiles[y][x + 1] # "water"
        THEN "grass" ELSE tiles[y][x]]]

\* outcomes of the draws random.random() of _place_resource_nodes: every
\* draw below 0.03, every draw in [0.03, 0.08), every draw from 0.08 up
RollPatterns == {"stone", "berry_bush", NONE}

\* TieredWorldGenerator._place_resource_nodes: the resource of every tile
place_resource_nodes(tiles, roll) ==
    [y \in 1..Height(tiles) |-> [x \in 1..Width(tiles) |->
        IF tiles[y][x] = "forest" THEN "tree"
        ELSE IF tiles[y][x] \in {"grass", "dirt"} THEN roll
        ELSE NONE]]

\* The grid _get_terrain_from_biome leaves, by the noise of the chunk: one
\* terrain west of the centre block, one in its columns, one east of it.
RawGrid(west, base, east) ==
    [y \in 1..LocalHeight |-> [x \in 1..LocalWidth |->
        IF x - 1 < LocalWidth \div 2 - CentreReach THEN west
        ELSE IF x - 1 > LocalWidth \div 2 + CentreReach THEN east
        ELSE base]]

RawGrids ==
    {RawGrid(west, base, east) :
        west \in {"water", "sand"}, base \in {"grass", "water", "forest", "dirt"},
        east \in {"water", "grass"}}

\* tree_density, in hundredths, of the biomes of the chunks generated:
\* desert, tundra, arid shrubland, boreal forest
ChunkDensities == {2, 5, 15, 50}

NoResources == [y \in 1..LocalHeight |-> [x \in 1..LocalWidth |-> NONE]]

\* generate_local_map up to the first pass: the raw grid and the biome
LocalInit ==
    /\ local_tiles \in RawGrids
    /\ \E d \in ChunkDensities :
          gen = [pc |-> "playability", tree_density |-> d, forests_left |-> 0,
                 raw |-> local_tiles, resource |-> NoResources]
    /\ citizens = <<>>
    /\ buildings = <<>>
    /\ resource_nodes = <<>>
    /\ resources = NoMaterials
    /\ citizen_gather_time = <<>>
    /\ next_building_id = 1
    /\ current_view = "local"
    /\ idx = 1
    /\ delta_time = 0
    /\ last_event = NoEvent
    /\ astar = NONE

LocalUnchanged ==
    UNCHANGED <<citizens, buildings, resource_nodes, resources, citizen_gather_time,
                next_building_id, current_view, idx, delta_time, last_event, astar>>

\* local_tiles = self._ensure_local_playability(local_tiles, biome_props)
EnsurePlayability ==
    /\ gen.pc = "playability"
    /\ local_tiles' = ensure_local_playability(local_tiles)
    /\ gen' = [gen EXCEPT !.pc = "forests",
                          !.forests_left = NumForests(gen.tree_density)]
    /\ LocalUnchanged

\* one pass of the loop of _add_forests
AddForest ==
    /\ gen.pc = "forests"
    /\ gen.forests_left > 0
    /\ \E c \in ForestCentres, radius \in ForestRadii(gen.tree_density),
          coin \in CoinPatterns :
          local_tiles' = forest_cluster(local_tiles, c[1], c[2], radius, coin)
    /\ gen' = [gen EXCEPT !.forests_left = @ - 1]
    /\ LocalUnchanged

\* _add_forests returns; local_tiles = self._smooth_terrain(local_tiles)
SmoothTerrain ==
    /\ gen.pc = "forests"
    /\ gen.forests_left = 0
    /\ local_tiles' = smooth_terrain(local_tiles)
    /\ gen' = [gen EXCEPT !.pc = "resources"]
    /\ LocalUnchanged

\* local_tiles = self._place_resource_nodes(local_tiles, biome_props); return
PlaceResourceNodes ==
    /\ gen.pc = "resources"
    /\ \E roll \in RollPatterns :
          gen' = [gen EXCEPT !.pc = "done",
                             !.resource = place_resource_nodes(local_tiles, roll)]
    /\ UNCHANGED local_tiles
    /\ LocalUnchanged

LocalNext == EnsurePlayability \/ AddForest \/ SmoothTerrain \/ PlaceResourceNodes

SpecLocal == LocalInit /\ [][LocalNext]_vars

\* C6: in the grid generate_local_map returns, every tile of the 11x11 block
\* centred on (width // 2, height // 2) is Grass or Dirt, whatever the biome
\* and the random draws.
C6_CentreBuildable ==
    gen.pc = "done" =>
       \A x \in 0..(LocalWidth - 1), y \in 0..(LocalHeight - 1) :
          InCentreBlock(local_tiles, x, y) =>
             TileAt(local_tiles, x, y) \in {"grass", "dirt"}

\* C7: once the edge fix has run, and so in the grid generate_local_map
\* returns, no tile of the first or last row or column is Water.
C7_NoWaterOnBorder ==
    gen.pc # "playability" =>
       \A x \in 0..(LocalWidth - 1), y \in 0..(LocalHeight - 1) :
          OnBorder(local_tiles, x, y) => TileAt(local_tiles, x, y) # "water"

\* a returned grid whose raw border had Water and that still has Water inside
C7_Witness ==
    /\ gen.pc = "done"
    /\ \E x \in 0..(LocalWidth - 1), y \in 0..(LocalHeight - 1) :
          OnBorder(local_tiles, x, y) /\ TileAt(gen.raw, x, y) = "water"
    /\ \E x \in 0..(LocalWidth - 1), y \in 0..(LocalHeight - 1) :
          TileAt(local_tiles, x, y) = "water"

(***************************************************************************)
(* Placing buildings: place_building and the view switches                 *)
(***************************************************************************)
\* bounds of the grid built on, and of the registry
PlaceWidth == 4

PlaceHeight == 3

MaxBuildings == 3

\* the grid built on: grass, with a first row of Water, Sand, Stone and Forest
PlaceTiles ==
    [y \in 1..PlaceHeight |-> [x \in 1..PlaceWidth |->
        IF y # 1 THEN "grass"
        ELSE IF x = 1 THEN "water" ELSE IF x = 2 THEN "sand"
        ELSE IF x = 3 THEN "stone" ELSE IF x = 4 THEN "forest" ELSE "dirt"]]

\* what the player asks for: the type (1x1, 2x2), and the top-left tile: off
\* the grid, in its first columns and rows, in its last column and row
PlaceTypes == {"well", "mine"}

PlaceXs == {-1, 0, 1, PlaceWidth - 1}

PlaceYs == {-1, 0, 1, PlaceHeight - 1}

Views == {"world", "region", "local"}

NoCall == [type |-> NONE, x |-> 0, y |-> 0, ok |-> FALSE]

\* a new game: the wagon, the local view
PlaceInit ==
    /\ local_tiles = PlaceTiles
    /\ buildings = <<Wagon(1, PlaceTiles)>>
    /\ next_building_id = 2
    /\ current_view = "local"
    /\ gen = NoCall
    /\ citizens = <<>>
    /\ resource_nodes = <<>>
    /\ resources = NewGameResources
    /\ citizen_gather_time = <<>>
    /\ idx = 1
    /\ delta_time = 0
    /\ last_event = NoEvent
    /\ astar = NONE

\* a call of place_building; gen keeps its arguments and what it returned
PlaceBuilding ==
    /\ Len(buildings) < MaxBuildings
    /\ \E type \in PlaceTypes, x \in PlaceXs, y \in PlaceYs :
          \E r \in {place_building(type, x, y, current_view, local_tiles,
                                   buildings, next_building_id)} :
             /\ buildings' = r.buildings
             /\ next_building_id' = r.next_id
             /\ gen' = [type |-> type, x |-> x, y |-> y, ok |-> r.ok]
    /\ UNCHANGED <<citizens, resource_nodes, resources, citizen_gather_time,
                   local_tiles, current_view, idx, delta_time, last_event, astar>>

\* switch_to_world_view, switch_to_region_view, switch_to_local_view
SwitchView ==
    /\ \E v \in Views : current_view' = v
    /\ UNCHANGED <<citizens, buildings, resource_nodes, resources,
                   citizen_gather_time, local_tiles, next_building_id, idx,
                   delta_time, last_event, astar, gen>>

PlaceNext == PlaceBuilding \/ SwitchView

SpecPlace == PlaceInit /\ [][PlaceNext]_vars

\* the tiles a building of the type covers when its top-left tile is (x, y)
Covered(type, x, y) ==
    {<<x + dx, y + dy>> : dx \in 0..(BUILDING_DEFINITIONS[type].width - 1),
                          dy \in 0..(BUILDING_DEFINITIONS[type].height - 1)}

OnGrid(t) == 0 <= t[1] /\ t[1] < PlaceWidth /\ 0 <= t[2] /\ t[2] < PlaceHeight

CoveredBy(b) == Covered(b.building_type, b.x, b.y)

\* the call asks for tiles off the grid or under a building, or comes in
\* another view than the local one
BadCall(type, x, y) ==
    \/ \E t \in Covered(type, x, y) : ~OnGrid(t)
    \/ \E k \in 1..Len(buildings) : Covered(type, x, y) \cap CoveredBy(buildings[k]) # {}
    \/ current_view # "local"

RegistrySound(blds) ==
    /\ \A k \in 1..Len(blds) : \A t \in CoveredBy(blds[k]) : OnGrid(t)
    /\ \A j, k \in 1..Len(blds) :
          j # k => /\ CoveredBy(blds[j]) \cap CoveredBy(blds[k]) = {}
                   /\ blds[j].id # blds[k].id

\* C10: a place_building call that asks for tiles off the grid or under an
\* existing building, or that comes while the view is not the local one,
\* returns False and leaves the registry and next_building_id as they were;
\* and at all times the footprints in the registry are pairwise disjoint and
\* on the grid, and the building ids pairwise distinct.
C10_PlacementSafe ==
    /\ RegistrySound(buildings)
    /\ [][/\ RegistrySound(buildings')
          /\ gen' # gen =>
                /\ BadCall(gen'.type, gen'.x, gen'.y) => ~gen'.ok
                /\ ~gen'.ok => /\ buildings' = buildings
                               /\ next_building_id' = next_building_id]_vars

\* the last call asked, in the local view, for tiles on the grid that an
\* earlier placement had taken, and was refused
C10_Witness ==
    /\ gen.type # NONE
    /\ ~gen.ok
    /\ current_view = "local"
    /\ \A t \in Covered(gen.type, gen.x, gen.y) : OnGrid(t)
    /\ \E k \in 2..Len(buildings) :
          Covered(gen.type, gen.x, gen.y) \cap CoveredBy(buildings[k]) # {}

\* the terrain under the tiles a request or a building covers
TerrainUnder(tiles) == {TileAt(local_tiles, t[1], t[2]) : t \in {u \in tiles : OnGrid(u)}}

\* C11: a place_building call fails, changing nothing, whenever a tile of the
\* requested footprint is of another terrain than Grass or Dirt; so no
\* building ever stands on a Water, Sand, Forest or Stone tile.
C11_BuildableTerrain ==
    /\ \A k \in 1..Len(buildings) :
          TerrainUnder(CoveredBy(buildings[k])) \subseteq {"grass", "dirt"}
    /\ [][gen' # gen =>
            (~(TerrainUnder(Covered(gen'.type, gen'.x, gen'.y)) \subseteq {"grass", "dirt"})
                => /\ ~gen'.ok
                   /\ buildings' = buildings
                   /\ next_building_id' = next_building_id)]_vars

(***************************************************************************)
(* TieredWorldGenerator.generate_world_map: the world tier                 *)
(***************************************************************************)
\* Elevation, temperature and rainfall are held in 12000ths: with noise
\* samples given in tenths and map heights up to 6 every quotient below is a
\* whole number, and the products of two of them stay within 32 bits.
Unit == 12 * 1000

Tenth == Unit \div 10

Abs(v) == IF v < 0 THEN 0 - v ELSE v

Clamp01(v) == Max2(0, Min2(Unit, v))

\* _generate_elevation from its four noise samples (tenths)
generate_elevation(n1, n2, n3, n4) ==
    LET elevation == (n1 * Tenth * 50 + n2 * Tenth * 25 + n3 * Tenth * 15
                        + n4 * Tenth * 10) \div 100
    IN Clamp01((elevation + Unit) \div 2)

\* _generate_rainfall from its two noise samples (tenths)
generate_rainfall(r1, r2, elevation) ==
    LET rainfall == ((r1 * Tenth * 6 + r2 * Tenth * 4) \div 10 + Unit) \div 2
    IN Clamp01(IF 10 * elevation > 7 * Unit THEN (rainfall * 12) \div 10 ELSE rainfall)

\* the temperature of generate_world_map, from row y of height rows, the
\* temperature noise sample (tenths) and the elevation
world_temperature(y, height, temp_noise, elevation) ==
    LET latitude_factor == (Abs(2 * y - height) * Unit) \div height
        base_temp == Unit - latitude_factor
    IN ((base_temp * 7 + temp_noise * Tenth * 3) * 2) \div 10 - Unit - elevation \div 2

\* BIOME_DEFINITIONS in dict order: the climate ranges, in hundredths
BiomeOrder ==
    <<"temperate_forest", "grassland", "boreal_forest", "tundra", "desert",
      "tropical_rainforest", "arid_shrubland", "wetland">>

BiomeClimate ==
    [temperate_forest    |-> [min_temperature |-> -20, max_temperature |-> 60,
                              min_rainfall |-> 40, max_rainfall |-> 80],
     grassland           |-> [min_temperature |-> 0, max_temperature |-> 70,
                              min_rainfall |-> 30, max_rainfall |-> 60],
     boreal_forest       |-> [min_temperature |-> -60, max_temperature |-> 20,
                              min_rainfall |-> 40, max_rainfall |-> 70],
     tundra              |-> [min_temperature |-> -80, max_temperature |-> -20,
                              min_rainfall |-> 20, max_rainfall |-> 50],
     desert              |-> [min_temperature |-> 50, max_temperature |-> 100,
                              min_rainfall |-> 0, max_rainfall |-> 20],
     tropical_rainforest |-> [min_temperature |-> 60, max_temperature |-> 100,
                              min_rainfall |-> 70, max_rainfall |-> 100],
     arid_shrubland      |-> [min_temperature |-> 30, max_temperature |-> 80,
                              min_rainfall |-> 20, max_rainfall |-> 40],
     wetland             |-> [min_temperature |-> -10, max_temperature |-> 50,
                              min_rainfall |-> 60, max_rainfall |-> 100]]

Hundredth == Unit \div 100

\* 1.0 inside [lo, hi], and 1.0 less the distance to the range outside it
RangeMatch(v, lo, hi) ==
    IF v < lo * Hundredth THEN Unit - (lo * Hundredth - v)
    ELSE IF v > hi * Hundredth THEN Unit - (v - hi * Hundredth)
    ELSE Unit

BiomeScore(b, temperature, rainfall) ==
    RangeMatch(temperature, BiomeClimate[b].min_temperature, BiomeClimate[b].max_temperature)
       * RangeMatch(rainfall, BiomeClimate[b].min_rainfall, BiomeClimate[b].max_rainfall)

\* get_biome_from_climate: the first biome, in dict order, of the best score
get_biome_from_climate(temperature, rainfall) ==
    LET best == CHOOSE k \in 1..Len(BiomeOrder) :
                   /\ \A j \in 1..Len(BiomeOrder) :
                         BiomeScore(BiomeOrder[j], temperature, rainfall)
                            <= BiomeScore(BiomeOrder[k], temperature, rainfall)
                   /\ \A j \in 1..(k - 1) :
                         BiomeScore(BiomeOrder[j], temperature, rainfall)
                            < BiomeScore(BiomeOrder[k], temperature, rainfall)
    IN BiomeOrder[best]

\* the body of the loops of generate_world_map: the WorldTile of (x, y) from
\* the seven noise samples read for it
TileFromSamples(x, y, height, ns) ==
    LET elevation == generate_elevation(ns[1], ns[2], ns[3], ns[4])
        temperature == world_temperature(y, height, ns[5], elevation)
        rainfall == generate_rainfall(ns[6], ns[7], elevation)
    IN [x |-> x, y |-> y, elevation |-> elevation, temperature |-> temperature,
        rainfall |-> rainfall, biome |-> get_biome_from_climate(temperature, rainfall)]

(***************************************************************************)
(* One WorldTile, for every noise the generators can give                  *)
(***************************************************************************)
\* noise2 values, in tenths
NoiseSamples == {-10, 0, 10}

\* the map heights tried
TileHeights == {1, 2, 4, 5}

NoTile ==
    [x |-> 0, y |-> 0, elevation |-> 0, temperature |-> 0, rainfall |-> 0,
     biome |-> NONE]

\* the row, the map height and the noise read for the tile
TileInit ==
    /\ \E height \in TileHeights, y \in 0..4, ns \in [1..7 -> NoiseSamples] :
          /\ y < height
          /\ gen = [y |-> y, height |-> height, ns |-> ns, made |-> FALSE,
                    tile |-> NoTile]
    /\ citizens = <<>>
    /\ buildings = <<>>
    /\ resource_nodes = <<>>
    /\ resources = NoMaterials
    /\ citizen_gather_time = <<>>
    /\ local_tiles = <<>>
    /\ next_building_id = 1
    /\ current_view = "world"
    /\ idx = 1
    /\ delta_time = 0
    /\ last_event = NoEvent
    /\ astar = NONE

MakeTile ==
    /\ ~gen.made
    /\ gen' = [gen EXCEPT !.made = TRUE,
                          !.tile = TileFromSamples(0, gen.y, gen.height, gen.ns)]
    /\ UNCHANGED <<citizens, buildings, resource_nodes, resources,
                   citizen_gather_time, local_tiles, next_building_id,
                   current_view, idx, delta_time, last_event, astar>>

SpecTile == TileInit /\ [][MakeTile]_vars

\* C19: every WorldTile of generate_world_map has its elevation in [0, 1],
\* its temperature in [-1, 1] and its rainfall in [0, 1], whatever the row,
\* the map height and the noise samples in [-1, 1].
C19_ClimateRanges ==
    gen.made =>
       /\ 0 <= gen.tile.elevation /\ gen.tile.elevation <= Unit
       /\ 0 - Unit <= gen.tile.temperature /\ gen.tile.temperature <= Unit
       /\ 0 <= gen.tile.rainfall /\ gen.tile.rainfall <= Unit

(***************************************************************************)
(* generate_world_map of TieredWorldGenerator, next to the shared random   *)
(* stream that the region and local tiers draw from                        *)
(***************************************************************************)
WorldSeeds == {1, 2}
WorldDims == {<<2, 2>>, <<1, 3>>}
MaxDraws == 2
MaxGenerators == 3

\* OpenSimplex(seed).noise2 at (cx, cy), coordinates in hundredths and the
\* value in tenths: a fixed function of the seed the generator was built
\* with and of the coordinates
noise2(seed, cx, cy) == ((seed * 31 + cx * 17 + cy * 7) % 21) - 10

\* random.seed(seed): the shared stream restarts at the seed's first draw
random_seed(seed) == [seed |-> seed, n |-> 0]

\* TieredWorldGenerator.__init__
NewGenerator(seed) ==
    [seed |-> seed, elevation_noise |-> seed, temperature_noise |-> seed + 1,
     rainfall_noise |-> seed + 2, detail_noise |-> seed + 3]

\* a world tier that takes one draw of the shared stream for its elevation
world_tile_drawing(g, rng, x, y, width, height) ==
    TileFromSamples(x, y, height,
        << noise2(g.elevation_noise + rng.n, x * 2, y * 2),
           noise2(g.elevation_noise, x * 4, y * 4),
           noise2(g.elevation_noise, x * 8, y * 8),
           noise2(g.elevation_noise, x * 16, y * 16),
           noise2(g.temperature_noise, x * 2, y * 2),
           noise2(g.rainfall_noise, x * 3, y * 3),
           noise2(g.rainfall_noise, x * 6, y * 6) >>)

\* the WorldTile at (x, y): the seven noise reads of the loop body
world_tile(g, rng, x, y, width, height) ==
    TileFromSamples(x, y, height,
        << noise2(g.elevation_noise, x * 2, y * 2),
           noise2(g.elevation_noise, x * 4, y * 4),
           noise2(g.elevation_noise, x * 8, y * 8),
           noise2(g.elevation_noise, x * 16, y * 16),
           noise2(g.temperature_noise, x * 2, y * 2),
           noise2(g.rainfall_noise, x * 3, y * 3),
           noise2(g.rainfall_noise, x * 6, y * 6) >>)

\* TieredWorldGenerator.generate_world_map: the rows of WorldTiles
generate_world_map(g, rng, width, height) ==
    [row \in 1..height |->
        [col \in 1..width |-> world_tile(g, rng, col - 1, row - 1, width, height)]]

NoGrids == [k \in WorldSeeds \X WorldDims |-> <<>>]

WorldInit ==
    /\ \E seed \in WorldSeeds :
          gen = [generator |-> NewGenerator(seed), rng |-> random_seed(seed),
                 built |-> 1, fresh |-> TRUE, first |-> NoGrids, kind |-> NONE,
                 key |-> <<>>, repeat |-> NONE, world_tiles |-> <<>>]
    /\ citizens = <<>>
    /\ buildings = <<>>
    /\ resource_nodes = <<>>
    /\ resources = NoMaterials
    /\ citizen_gather_time = <<>>
    /\ local_tiles = <<>>
    /\ next_building_id = 1
    /\ current_view = "world"
    /\ idx = 0
    /\ delta_time = 0
    /\ last_event = NONE
    /\ astar = NONE

WorldUnchanged ==
    UNCHANGED <<citizens, buildings, resource_nodes, resources,
                citizen_gather_time, local_tiles, next_building_id,
                current_view, idx, delta_time, last_event, astar>>

\* a call of generate_world_map on the current generator
GenerateWorldMap ==
    /\ \E dim \in WorldDims :
         LET key == <<gen.generator.seed, dim>>
             world_tiles == generate_world_map(gen.generator, gen.rng, dim[1], dim[2])
         IN gen' = [gen EXCEPT !.kind = "world_map", !.key = key,
                               !.repeat = IF gen.first[key] = <<>> THEN NONE
                                          ELSE IF gen.fresh THEN "other generator"
                                          ELSE "same generator",
                               !.fresh = FALSE,
                               !.world_tiles = world_tiles,
                               !.first = IF gen.first[key] = <<>>
                                         THEN [gen.first EXCEPT ![key] = world_tiles]
                                         ELSE gen.first]
    /\ WorldUnchanged

\* a draw of the shared stream by the region or the local tier
DrawRandom ==
    /\ gen.rng.n < MaxDraws
    /\ gen' = [gen EXCEPT !.kind = "draw", !.rng.n = gen.rng.n + 1]
    /\ WorldUnchanged

\* another TieredWorldGenerator is built and used from here on
BuildGenerator ==
    /\ gen.built < MaxGenerators
    /\ \E seed \in WorldSeeds :
          gen' = [gen EXCEPT !.kind = "built", !.generator = NewGenerator(seed),
                             !.rng = random_seed(seed), !.built = gen.built + 1,
                             !.fresh = TRUE]
    /\ WorldUnchanged

WorldNext == GenerateWorldMap \/ DrawRandom \/ BuildGenerator

SpecWorld == WorldInit /\ [][WorldNext]_vars

MaxCitizenId == 4

\* the building: any type of the catalog, as placed or in use
WorkersInit ==
    /\ \E type \in BuildingType, active \in BOOLEAN :
          buildings = << IF active
                         THEN [NewBuilding(1, type, 0, 0) EXCEPT !.state = "complete",
                                                                  !.is_active = TRUE]
                         ELSE NewBuilding(1, type, 0, 0) >>
    /\ citizens = <<>>
    /\ resource_nodes = <<>>
    /\ resources = NoMaterials
    /\ citizen_gather_time = <<>>
    /\ local_tiles = <<>>
    /\ next_building_id = 2
    /\ current_view = "local"
    /\ idx = 0
    /\ delta_time = 0
    /\ last_event = NONE
    /\ astar = NONE
    /\ gen = NONE

AssignWorker ==
    /\ \E k \in 1..Len(buildings), citizen_id \in 1..MaxCitizenId :
          buildings' = [buildings EXCEPT ![k] = assign_worker(@, citizen_id)]
    /\ UNCHANGED <<citizens, resource_nodes, resources, citizen_gather_time,
                   local_tiles, next_building_id, current_view, idx, delta_time,
                   last_event, astar, gen>>

RemoveWorker ==
    /\ \E k \in 1..Len(buildings), citizen_id \in 1..MaxCitizenId :
          buildings' = [buildings EXCEPT ![k] = remove_worker(@, citizen_id)]
    /\ UNCHANGED <<citizens, resource_nodes, resources, citizen_gather_time,
                   local_tiles, next_building_id, current_view, idx, delta_time,
                   last_event, astar, gen>>

WorkersNext == AssignWorker \/ RemoveWorker

SpecWorkers == WorkersInit /\ [][WorkersNext]_vars

\* C17: whatever assign_worker and remove_worker calls were made, a building
\* never has more ids in assigned_workers than the max_workers of its
\* definition.
C17_WorkersBounded ==
    \A k \in 1..Len(buildings) :
       Len(buildings[k].assigned_workers) <= get_definition(buildings[k]).max_workers

(***************************************************************************)
(* generate_local_map: the chunk of region tiles it takes as reference     *)
(***************************************************************************)
RegionWidth == 3
RegionHeight == 2
MaxChunk == 3

\* averages are kept in AvgUnit-ths of a tenth, exact for up to ten tiles
AvgUnit == 8 * 315

\* a region map whose tiles all differ; elevation and moisture in tenths
RegionTiles ==
    [y \in 1..RegionHeight |-> [x \in 1..RegionWidth |->
        [x |-> x - 1, y |-> y - 1, elevation |-> (3 * x + 5 * y) % 10,
         moisture |-> (7 * x + y) % 10,
         biome |-> IF (x + y) % 3 = 0 THEN "grassland"
                   ELSE IF (x + y) % 3 = 1 THEN "temperate_forest" ELSE "wetland"]]]

\* the chunk_tiles list: the cells cy, cx in loop order, each read at rx, ry
\* when the bounds test lets it through
chunk_tiles_of(region_tiles, chunk_x, chunk_y, chunk_width, chunk_height) ==
    LET region_height == Len(region_tiles)
        region_width == IF region_height > 0 THEN Len(region_tiles[1]) ELSE 0
        cell(n) == [rx |-> Min2(chunk_x + ((n - 1) % chunk_width), region_width - 1),
                    ry |-> Min2(chunk_y + ((n - 1) \div chunk_width), region_height - 1)]
        cells == [n \in 1..(chunk_width * chunk_height) |-> cell(n)]
        kept == SelectSeq(cells, LAMBDA c : /\ 0 <= c.ry /\ c.ry < region_height
                                            /\ 0 <= c.rx /\ c.rx < region_width)
    IN [n \in 1..Len(kept) |-> region_tiles[kept[n].ry + 1][kept[n].rx + 1]]

RECURSIVE SumOver(_, _, _)
SumOver(ts, field, n) == IF n = 0 THEN 0 ELSE ts[n][field] + SumOver(ts, field, n - 1)

\* sum(t.<field> for t in chunk_tiles) / len(chunk_tiles)
Average(ts, field) == (SumOver(ts, field, Len(ts)) * AvgUnit) \div Len(ts)

CountOf(ts, b) == Cardinality({n \in 1..Len(ts) : ts[n].biome = b})

\* max(set(biomes), key=count): a biome of the chunk that no other outnumbers;
\* among equals the set's iteration order decides
PrimaryBiomes(ts) ==
    {b \in {ts[n].biome : n \in 1..Len(ts)} :
        \A n \in 1..Len(ts) : CountOf(ts, ts[n].biome) <= CountOf(ts, b)}

ChunkInit ==
    /\ \E chunk_x \in (0 - 2)..(RegionWidth + 1), chunk_y \in (0 - 2)..(RegionHeight + 1),
          chunk_width \in 1..MaxChunk, chunk_height \in 1..MaxChunk :
          gen = [chunk_x |-> chunk_x, chunk_y |-> chunk_y, chunk_width |-> chunk_width,
                 chunk_height |-> chunk_height, made |-> FALSE, fallback |-> FALSE,
                 chunk_tiles |-> <<>>, avg_elevation |-> 0, avg_moisture |-> 0,
                 primary_biome |-> NONE]
    /\ citizens = <<>>
    /\ buildings = <<>>
    /\ resource_nodes = <<>>
    /\ resources = NoMaterials
    /\ citizen_gather_time = <<>>
    /\ local_tiles = RegionTiles
    /\ next_building_id = 1
    /\ current_view = "region"
    /\ idx = 0
    /\ delta_time = 0
    /\ last_event = NONE
    /\ astar = NONE

\* generate_local_map up to the chunk analysis: the fallback map when no
\* tile was kept, else the averages and the primary biome of the kept tiles
AnalyseChunk ==
    /\ ~gen.made
    /\ \E ts \in {chunk_tiles_of(local_tiles, gen.chunk_x, gen.chunk_y,
                                 gen.chunk_width, gen.chunk_height)} :
          IF ts = <<>>
          THEN gen' = [gen EXCEPT !.made = TRUE, !.fallback = TRUE]
          ELSE \E b \in PrimaryBiomes(ts) :
                  gen' = [gen EXCEPT !.made = TRUE, !.chunk_tiles = ts,
                                     !.avg_elevation = Average(ts, "elevation"),
                                     !.avg_moisture = Average(ts, "moisture"),
                                     !.primary_biome = b]
    /\ UNCHANGED <<citizens, buildings, resource_nodes, resources,
                   citizen_gather_time, local_tiles, next_building_id,
                   current_view, idx, delta_time, last_event, astar>>

SpecChunk == ChunkInit /\ [][AnalyseChunk]_vars

\* the region tile at the coordinates clamped into the grid
ClampedTile(region_tiles, x, y) ==
    region_tiles[Max2(0, Min2(y, Len(region_tiles) - 1)) + 1]
                [Max2(0, Min2(x, Len(region_tiles[1]) - 1)) + 1]

ClampedChunk(region_tiles, chunk_x, chunk_y, chunk_width, chunk_height) ==
    [n \in 1..(chunk_width * chunk_height) |->
        ClampedTile(region_tiles, chunk_x + ((n - 1) % chunk_width),
                                  chunk_y + ((n - 1) \div chunk_width))]

\* C18: for any chunk_x and chunk_y, negative and beyond the grid included,
\* generate_local_map takes each of its chunk_width x chunk_height cells from
\* the region tile at the coordinates clamped into the grid: that many tiles
\* make the averages and the primary biome, and no cell is skipped.
C18_ChunkClamped ==
    gen.made =>
       LET ts == ClampedChunk(local_tiles, gen.chunk_x, gen.chunk_y,
                              gen.chunk_width, gen.chunk_height)
       IN /\ ~gen.fallback
          /\ gen.chunk_tiles = ts
          /\ Len(gen.chunk_tiles) = gen.chunk_width * gen.chunk_height
          /\ gen.avg_elevation = Average(ts, "elevation")
          /\ gen.avg_moisture = Average(ts, "moisture")
          /\ gen.primary_biome \in PrimaryBiomes(ts)

(***************************************************************************)
(* The heuristic of find_path against the cheapest way over open ground    *)
(***************************************************************************)
AdmitWidth == 4
AdmitHeight == 3

AdmitTiles == UniformTiles(AdmitWidth, AdmitHeight, "grass")

AdmitPoints == (0..(AdmitWidth - 1)) \X (0..(AdmitHeight - 1))

\* a g_cost no walk over the grid adds up to
Unreached == 1000 * 1000

\* one more step allowed: the cheapest of staying and of each neighbour the
\* loop of find_path would expand to, plus its move_cost
Relax(cost, tiles) ==
    [t \in DOMAIN cost |->
        LET via == {cost[<<t[1] + Directions[d][1], t[2] + Directions[d][2]>>]
                      + MoveCost(Directions[d]) :
                    d \in {e \in 1..Len(Directions) :
                             /\ InBounds(tiles, t[1] + Directions[e][1],
                                                t[2] + Directions[e][2])
                             /\ IsWalkable(t[1] + Directions[e][1],
                                           t[2] + Directions[e][2], tiles, {})}}
            all == via \cup {cost[t]}
        IN CHOOSE c \in all : \A o \in all : c <= o]

\* no step taken yet: the goal is at cost 0 from itself
CostAtGoal(goal, tiles) ==
    [t \in (0..(Width(tiles) - 1)) \X (0..(Height(tiles) - 1)) |->
        IF t = goal THEN 0 ELSE Unreached]

\* _heuristic(x1, y1, x2, y2) > cost / 1000, compared through the squares
HeuristicExceeds(x1, y1, x2, y2, cost) ==
    1000000 * ((x2 - x1) * (x2 - x1) + (y2 - y1) * (y2 - y1)) > cost * cost

AdmitInit ==
    /\ \E start \in AdmitPoints, goal \in AdmitPoints :
          gen = [start |-> start, goal |-> goal, made |-> FALSE,
                 cost |-> CostAtGoal(goal, AdmitTiles), cheapest |-> 0]
    /\ citizens = <<>>
    /\ buildings = <<>>
    /\ resource_nodes = <<>>
    /\ resources = NoMaterials
    /\ citizen_gather_time = <<>>
    /\ local_tiles = AdmitTiles
    /\ next_building_id = 1
    /\ current_view = "local"
    /\ idx = 0
    /\ delta_time = 0
    /\ last_event = NONE
    /\ astar = NONE

\* the costs of the walks to the goal are relaxed one step further; when no
\* cost gets lower they are the least sums of move_cost, and the cheapest
\* 8-directional way from start to goal is read off, in thousandths
MeasureCheapest ==
    /\ ~gen.made
    /\ \E cost \in {Relax(gen.cost, local_tiles)} :
          gen' = IF cost = gen.cost
                 THEN [gen EXCEPT !.made = TRUE, !.cheapest = cost[gen.start]]
                 ELSE [gen EXCEPT !.cost = cost]
    /\ UNCHANGED <<citizens, buildings, resource_nodes, resources,
                   citizen_gather_time, local_tiles, next_building_id,
                   current_view, idx, delta_time, last_event, astar>>

SpecAdmit == AdmitInit /\ [][MeasureCheapest]_vars

\* C20: on open ground the Euclidean heuristic of find_path from a tile to
\* the goal never exceeds the cost of the cheapest 8-directional path
\* between them, with the move costs the search adds up.
C20_HeuristicAdmissible ==
    gen.made =>
       ~HeuristicExceeds(gen.start[1], gen.start[2], gen.goal[1], gen.goal[2],
                         gen.cheapest)

(***************************************************************************)
(* Further properties of the simulation                                    *)
(***************************************************************************)
\* the citizen stands within 0.5 tiles of the point p (half tiles)
Within(c, p) == DistSq(c.x, c.y, p[1], p[2]) < 1

\* C21: a job's location-bound action happens only on arrival: a hauler
\* withdraws from the stockpile only within 0.5 tiles of the stockpile
\* location, delivers only within 0.5 tiles of the centre of its building,
\* and construction_progress grows only through a citizen within 0.5 tiles
\* of the building's centre; also on the first ticks after the assignment,
\* when the citizen has no movement target yet.
C21_ActOnArrival ==
    [][LET i == last_event'.citizen
           kind == last_event'.kind
       IN /\ (idx' # idx /\ kind = "haul_pickup")
                => Within(citizens'[i], get_stockpile_location(buildings))
          /\ (idx' # idx /\ kind \in {"haul_deliver", "construct_work"})
                => Within(citizens'[i],
                          get_center(buildings[citizens[i].current_task.ref]))]_vars

\* a well that was supplied and built
BuiltWell(id) ==
    LET b == NewBuilding(id, "well", SimWidth - 2, 0)
    IN [b EXCEPT !.state = "complete", !.is_active = TRUE,
                 !.construction_progress = WorkQ(b),
                 !.materials_delivered = get_definition(b).required_resources]

\* A game in progress: of the 50 stone of a new game 20 went into a well and
\* 25 into a warehouse site that lacks its last five; no node is
\* designated, the player places a building at some moment.
LiveInit ==
    /\ local_tiles = SimTiles
    /\ buildings = <<Wagon(1, SimTiles),
                     BuiltWell(2),
                     SuppliedWarehouse(3)>>
    /\ next_building_id = 4
    /\ resources = [NewGameResources EXCEPT !["wood"] = 100 - 50,
                                            !["stone"] = 50 - 20 - 25]
    /\ resource_nodes = SimNodes
    /\ citizens = [i \in CitizenIds |->
                      NewCitizen(i, SimWidth \div 2 + 2, SimHeight \div 2 + (i % 2),
                                 SkillOf(i))]
    /\ citizen_gather_time = [i \in CitizenIds |-> -1]
    /\ current_view = "local"
    /\ idx = 1
    /\ delta_time = 0
    /\ last_event = NoEvent
    /\ astar = NONE
    /\ gen = NONE

LiveNext == TickBegin \/ TickNext \/ Place

\* the game loop keeps calling GameState.update: a tick that can start
\* starts, and a tick under way goes on to the next citizen
SpecLive == LiveInit /\ [][LiveNext]_vars /\ WF_vars(TickBegin) /\ WF_vars(TickNext)

\* citizen i holds a Hauling task for a building that needs nothing more
HaulsForSatisfied(i) ==
    /\ citizens[i].current_job = "hauling"
    /\ citizens[i].current_task.kind = "building"
    /\ ~NeedsSomething(buildings[citizens[i].current_task.ref])

\* C22: every Hauling task ends: a citizen that holds a Hauling task for a
\* building whose required materials are all delivered eventually has the
\* task cleared and is Idle.
C22_HaulingTerminates ==
    \A i \in CitizenIds :
       HaulsForSatisfied(i)
          ~> (citizens[i].current_task = NoTask /\ citizens[i].state = "idle")

\* C23: for every building and every resource kind the amount in
\* materials_delivered never decreases and never exceeds the amount the
\* building's definition requires, however many citizens haul to the same
\* building in interleaved ticks.
C23_DeliveredWithinRequired ==
    /\ [](\A k \in 1..Len(buildings) : \A r \in KindSet :
             buildings[k].materials_delivered[r]
                <= get_definition(buildings[k]).required_resources[r])
    /\ [][\A k \in 1..Len(buildings) : \A r \in KindSet :
             buildings'[k].materials_delivered[r]
                >= buildings[k].materials_delivered[r]]_vars

\* the delta_time of the tick that the step from citizen idx belongs to
TickDelta == IF idx = 1 THEN delta_time' ELSE delta_time

\* the step is a pass of the tick over citizen idx that called gather()
GatherCalled == idx' # idx /\ last_event'.kind \in {"harvest", "harvest_nothing"}

\* C25: in a Gathering task gather() is called only in a tick where the
\* citizen is at the node and its time at the node has reached 5.0 s, and
\* only while it carries nothing, so at most once per task; that tick
\* releases the node's assignment and deletes the timer entry; afterwards the
\* citizen carries exactly what gather() returned and has no movement
\* target, or, when nothing was returned, has its task cleared.  No node
\* loses amount in any other step, and the task ends when the cargo is
\* put down.
C25_GatherOnArrivalOnce ==
    [][/\ GatherCalled =>
            LET c == citizens[idx]
                n == c.current_task.ref
                node == resource_nodes[n]
                g == gather(node)
                t0 == IF citizen_gather_time[idx] < 0 THEN 0
                      ELSE citizen_gather_time[idx]
            IN /\ c.current_job = "gathering" /\ c.current_task.kind = "node"
               /\ c.carrying_resource = NONE
               /\ Within(citizens'[idx], <<2 * node.x, 2 * node.y>>)
               /\ t0 + TickDelta >= GATHER_TIME
               /\ resource_nodes'[n] = unassign_citizen(g.node)
               /\ ~resource_nodes'[n].currently_being_gathered
               /\ citizen_gather_time'[idx] = -1
               /\ IF g.kind # NONE /\ g.amount > 0
                  THEN /\ citizens'[idx].carrying_resource = g.kind
                       /\ citizens'[idx].carrying_amount = g.amount
                       /\ citizens'[idx].target = <<>>
                       /\ citizens'[idx].current_task = c.current_task
                  ELSE /\ citizens'[idx].current_task = NoTask
                       /\ citizens'[idx].carrying_resource = NONE
       /\ \A n \in 1..Len(resource_nodes) :
             resource_nodes'[n].amount_remaining # resource_nodes[n].amount_remaining
                => GatherCalled /\ citizens[idx].current_task = NodeTask(n)
       /\ \A i \in 1..Len(citizens) :
             (/\ citizens[i].current_task.kind = "node"
              /\ citizens[i].carrying_resource # NONE
              /\ citizens'[i].carrying_resource = NONE)
                => citizens'[i].current_task = NoTask]_vars

\* a citizen has just harvested: it carries the yield, has no target and no
\* timer entry, and the node is free again
C25_Witness ==
    /\ last_event.kind = "harvest"
    /\ \E i \in 1..Len(citizens) :
          /\ last_event.citizen = i
          /\ citizens[i].carrying_resource # NONE
          /\ citizens[i].carrying_amount > 0
          /\ citizens[i].target = <<>>
          /\ citizen_gather_time[i] = -1
          /\ ~resource_nodes[citizens[i].current_task.ref].currently_being_gathered

\* citizen i is on its way to harvest node n, or harvesting it
Harvesting(i, n) ==
    /\ citizens[i].current_job = "gathering"
    /\ citizens[i].current_task = NodeTask(n)
    /\ citizens[i].carrying_resource = NONE

\* C27: between ticks a node is claimed (currently_being_gathered) exactly
\* when some citizen holds it as its Gathering task and carries no cargo.
\* A harvest leaves the node unclaimed, so a designated node that is not
\* depleted is available again right after it.
C27_ClaimNeverLeaks ==
    /\ [](idx = 1 =>
            \A n \in 1..Len(resource_nodes) :
               resource_nodes[n].currently_being_gathered
                  <=> \E i \in 1..Len(citizens) : Harvesting(i, n))
    /\ [][GatherCalled =>
            LET n == citizens[idx].current_task.ref
            IN /\ ~resource_nodes'[n].currently_being_gathered
               /\ (resource_nodes'[n].designated /\ ~resource_nodes'[n].is_depleted)
                     => n \in available_nodes(resource_nodes')]_vars

\* between ticks: one node is claimed by a citizen on its way to it, and
\* another, harvested before and not depleted, is free while the citizen
\* that harvested it still holds it as its task, carrying the yield
C27_Witness ==
    /\ idx = 1
    /\ \E n \in 1..Len(resource_nodes), i \in 1..Len(citizens) :
          /\ resource_nodes[n].currently_being_gathered
          /\ Harvesting(i, n)
    /\ \E m \in 1..Len(resource_nodes), j \in 1..Len(citizens) :
          /\ resource_nodes[m].amount_remaining < resource_nodes[m].max_amount
          /\ ~resource_nodes[m].is_depleted
          /\ ~resource_nodes[m].currently_being_gathered
          /\ citizens[j].current_task = NodeTask(m)
          /\ citizens[j].carrying_resource # NONE

\* the amount of `kind` on the backs of the citizens whose job is Hauling
RECURSIVE CarriedByHaulers(_, _, _)
CarriedByHaulers(cs, kind, n) ==
    IF n = 0 THEN 0
    ELSE CarriedByHaulers(cs, kind, n - 1)
         + (IF cs[n].current_job = "hauling" /\ cs[n].carrying_resource = kind
            THEN cs[n].carrying_amount ELSE 0)

\* the amount of `kind` delivered to the buildings
RECURSIVE DeliveredTo(_, _, _)
DeliveredTo(blds, kind, n) ==
    IF n = 0 THEN 0
    ELSE DeliveredTo(blds, kind, n - 1) + blds[n].materials_delivered[kind]

Material(res, cs, blds, kind) ==
    res[kind] + CarriedByHaulers(cs, kind, Len(cs)) + DeliveredTo(blds, kind, Len(blds))

\* the step is a pass of the tick over a citizen in _update_hauling
HaulingStep ==
    /\ idx' # idx
    /\ last_event'.kind \in {"haul_move", "haul_wait", "haul_pickup", "haul_deliver"}

\* C29: hauling neither creates nor destroys material: for each kind, the
\* stockpile plus the loads of the Hauling citizens plus what the buildings
\* have been delivered is the same after every hauling step as before it,
\* and no stockpile amount is ever negative.
C29_HaulingConserves ==
    /\ [](\A kind \in KindSet : resources[kind] >= 0)
    /\ [][HaulingStep =>
            \A kind \in KindSet :
               Material(resources', citizens', buildings', kind)
                  = Material(resources, citizens, buildings, kind)]_vars

\* two citizens have withdrawn for the same building in the same tick, which
\* has had deliveries before
C29_Witness ==
    /\ last_event.kind = "haul_pickup"
    /\ \E kind \in KindSet, i, j \in 1..Len(citizens) :
          /\ i # j
          /\ last_event.citizen = j
          /\ citizens[i].current_task = citizens[j].current_task
          /\ buildings[citizens[j].current_task.ref].materials_delivered[kind] > 0
          /\ citizens[i].current_job = "hauling" /\ citizens[j].current_job = "hauling"
          /\ citizens[i].carrying_resource = kind /\ citizens[j].carrying_resource = kind
          /\ citizens[i].carrying_amount > 0 /\ citizens[j].carrying_amount > 0

(***************************************************************************)
(* The pathfinder asked for the way onto a building                        *)
(***************************************************************************)
\* a grass grid with one building of the catalog, a ring of free tiles
\* around the largest footprint
CentreWidth == 7

CentreHeight == 7

CentreTiles == UniformTiles(CentreWidth, CentreHeight, "grass")

\* the tile of the building's centre: the integer part of get_center()
CentreTile(b) == <<TileOf(get_center(b)[1]), TileOf(get_center(b)[2])>>

\* where the citizen stands: the corners of the grid and the tiles at the
\* middle of its sides
CentreStarts ==
    {t \in {0, CentreWidth \div 2, CentreWidth - 1}
              \X {0, CentreHeight \div 2, CentreHeight - 1} : TRUE}

\* find_path as _move_citizen_to calls it for a building task: from a tile
\* outside the footprint to the tile of the centre
CentreInit ==
    /\ local_tiles = CentreTiles
    /\ \E type \in BuildingType : buildings = <<NewBuilding(1, type, 1, 1)>>
    /\ \E s \in CentreStarts \ Footprint(buildings[1]) :
          astar = AStarBegin(s[1], s[2], CentreTile(buildings[1])[1],
                             CentreTile(buildings[1])[2], local_tiles, buildings)
    /\ citizens = <<>>
    /\ resource_nodes = <<>>
    /\ resources = NoMaterials
    /\ citizen_gather_time = <<>>
    /\ next_building_id = 2
    /\ current_view = "local"
    /\ idx = 1
    /\ delta_time = 0
    /\ last_event = NoEvent
    /\ gen = NONE

\* one pass of the loop, heappop taking the oldest of the least entries
AStarPopOldest ==
    /\ astar.status = "running"
    /\ astar.open_list # <<>>
    /\ astar.iterations < MaxIterations
    /\ astar' = AStarStep(astar, FirstMin(astar.open_list), local_tiles)
    /\ UNCHANGED <<citizens, buildings, resource_nodes, resources,
                   citizen_gather_time, local_tiles, next_building_id,
                   current_view, idx, delta_time, last_event, gen>>

CentreNext == AStarPopOldest \/ AStarGiveUp

SpecCentre == CentreInit /\ [][CentreNext]_vars

\* C26: for every building type of the catalog, find_path from a walkable
\* tile outside the footprint to the tile of the building's centre returns a
\* path; the tiles bordering the footprint are all free grass, hence
\* reachable from every start.
C26_CentreReachable ==
    (astar.status = "done" /\ astar.iterations < MaxIterations)
       => astar.result # <<>>

(***************************************************************************)
(* GameState.update with its clock: game_time and the auto-save            *)
(***************************************************************************)
\* the auto-save period of update, in seconds
AutoSavePeriod == 300

\* game_time stops here, in half seconds: past the first boundary
MaxGameTime == 2 * 310

\* delta_time values in half seconds: a short frame, and frames as long as
\* those of the simulation
AutoDeltas == {1} \cup DeltaTimes

\* int(game_time), game_time in half seconds
IntSeconds(t) == t \div 2

\* the test update makes after the tick
AutoSaveDue(t) == IntSeconds(t) % AutoSavePeriod = 0 /\ IntSeconds(t) > 0

\* the multiples of the period that lie in (t0, t1]
BoundariesCrossed(t0, t1) ==
    t1 \div (2 * AutoSavePeriod) - t0 \div (2 * AutoSavePeriod)

\* JobManager.update: the loop over the citizens
RECURSIVE UpdateFrom(_, _, _, _)
UpdateFrom(w, i, dt, tiles) ==
    IF i > Len(w.citizens) THEN w
    ELSE UpdateFrom(update_citizen(w, i, dt, tiles), i + 1, dt, tiles)

\* a new game, with or without a save name; gen is the clock of GameState:
\* game_time in half seconds, paused, whether current_save_name is set, and
\* the number of auto_save calls made
AutoInit ==
    /\ local_tiles = SimTiles
    /\ buildings = <<Wagon(1, SimTiles)>>
    /\ next_building_id = 2
    /\ resources = NewGameResources
    /\ resource_nodes = SimNodes
    /\ citizens = [i \in CitizenIds |->
                      NewCitizen(i, SimWidth \div 2 + 2, SimHeight \div 2 + (i % 2),
                                 SkillOf(i))]
    /\ citizen_gather_time = [i \in CitizenIds |-> -1]
    /\ current_view = "local"
    /\ idx = 1
    /\ delta_time = 0
    /\ last_event = NoEvent
    /\ astar = NONE
    /\ \E named \in BOOLEAN :
          gen = [game_time |-> 0, paused |-> FALSE, save_name_set |-> named,
                 auto_saves |-> 0]

\* GameState.update(delta_time)
Update ==
    /\ gen.game_time < MaxGameTime
    /\ \E dt \in AutoDeltas :
          IF gen.paused
          THEN UNCHANGED vars
          ELSE \E w \in {UpdateFrom(World, 1, dt, local_tiles)} :
                  /\ citizens' = w.citizens
                  /\ buildings' = w.buildings
                  /\ resource_nodes' = w.resource_nodes
                  /\ resources' = w.resources
                  /\ citizen_gather_time' = w.citizen_gather_time
                  /\ last_event' = w.last_event
                  /\ delta_time' = dt
                  /\ gen' = [gen EXCEPT
                               !.game_time = @ + dt,
                               !.auto_saves =
                                  IF AutoSaveDue(gen.game_time + dt) /\ gen.save_name_set
                                  THEN @ + 1 ELSE @]
                  /\ UNCHANGED <<local_tiles, next_building_id, current_view, idx,
                                 astar>>

\* Game.handle_events: the space key
TogglePause ==
    /\ gen' = [gen EXCEPT !.paused = ~@]
    /\ UNCHANGED <<citizens, buildings, resource_nodes, resources,
                   citizen_gather_time, local_tiles, next_building_id,
                   current_view, idx, delta_time, last_event, astar>>

AutoNext == Update \/ TogglePause

SpecAuto == AutoInit /\ [][AutoNext]_vars

\* C30: with a save name set and the game not paused, an update makes one
\* auto-save for each multiple of 300 seconds that game_time crosses in it,
\* and none when it crosses no multiple.
C30_AutoSaveOnCrossing ==
    [][(gen.save_name_set /\ ~gen.paused /\ gen'.paused = gen.paused)
          => gen'.auto_saves - gen.auto_saves
                = BoundariesCrossed(gen.game_time, gen'.game_time)]_vars

(***************************************************************************)
(* The simulation with save-then-load of the game between ticks            *)
(***************************************************************************)
MaxLoads == 1

\* Citizen.to_dict: no entry for current_task, current_path or path_index
citizen_to_dict(c) ==
    [id |-> c.id, x |-> c.x, y |-> c.y, state |-> c.state,
     current_job |-> c.current_job, target |-> c.target,
     construction_skill |-> c.construction_skill,
     can_construct |-> c.can_construct, can_gather |-> c.can_gather,
     can_haul |-> c.can_haul, carrying_resource |-> c.carrying_resource,
     carrying_amount |-> c.carrying_amount]

\* Citizen.from_dict: a new Citizen with the saved fields put back
citizen_from_dict(data) ==
    [NewCitizen(data.id, 0, 0, data.construction_skill)
        EXCEPT !.x = data.x, !.y = data.y, !.state = data.state,
               !.current_job = data.current_job, !.target = data.target,
               !.can_construct = data.can_construct, !.can_gather = data.can_gather,
               !.can_haul = data.can_haul,
               !.carrying_resource = data.carrying_resource,
               !.carrying_amount = data.carrying_amount]

\* Building.to_dict
building_to_dict(b) ==
    [id |-> b.id, building_type |-> b.building_type, x |-> b.x, y |-> b.y,
     state |-> b.state, construction_progress |-> b.construction_progress,
     materials_delivered |-> b.materials_delivered,
     assigned_workers |-> b.assigned_workers, is_active |-> b.is_active]

\* Building.from_dict
building_from_dict(data) ==
    [NewBuilding(data.id, data.building_type, data.x, data.y)
        EXCEPT !.state = data.state,
               !.construction_progress = data.construction_progress,
               !.materials_delivered = data.materials_delivered,
               !.assigned_workers = data.assigned_workers,
               !.is_active = data.is_active]

\* a game in progress that has a building site; no load yet
LoadInit ==
    /\ local_tiles = SimTiles
    /\ \E sc \in Scenarios :
         /\ Len(sc.buildings) > 1
         /\ buildings = sc.buildings
         /\ next_building_id = sc.next_id
         /\ resources = sc.resources
    /\ resource_nodes = SimNodes
    /\ citizens = [i \in CitizenIds |->
                      NewCitizen(i, SimWidth \div 2 + 2, SimHeight \div 2 + (i % 2),
                                 SkillOf(i))]
    /\ citizen_gather_time = [i \in CitizenIds |-> -1]
    /\ current_view = "local"
    /\ idx = 1
    /\ delta_time = 0
    /\ last_event = NoEvent
    /\ astar = NONE
    /\ gen = 0

\* GameState.save_game and then GameState.load_game of that save, between
\* ticks: _serialize_world and _deserialize_world; the JobManager and its
\* timers stay as they are
SaveThenLoad ==
    /\ idx = 1
    /\ gen < MaxLoads
    /\ gen' = gen + 1
    /\ citizens' = [i \in 1..Len(citizens) |->
                       citizen_from_dict(citizen_to_dict(citizens[i]))]
    /\ buildings' = [k \in 1..Len(buildings) |->
                        building_from_dict(building_to_dict(buildings[k]))]
    /\ resource_nodes' = [n \in 1..Len(resource_nodes) |->
                             resource_from_dict(resource_to_dict(resource_nodes[n]))]
    /\ last_event' = [citizen |-> 0, kind |-> "loaded"]
    /\ UNCHANGED <<resources, citizen_gather_time, local_tiles, next_building_id,
                   current_view, idx, delta_time, astar>>

LoadNext == TickBegin \/ TickNext \/ Designate \/ Place \/ SaveThenLoad

SpecLoad == LoadInit /\ [][LoadNext]_vars

\* C24: in every state reached from a new game by ticks, placements and
\* save-then-load, a citizen without a current task is Idle, has no job and
\* carries nothing, so that the next tick considers it for work.
C24_TasklessIsIdle ==
    \A i \in 1..Len(citizens) :
       citizens[i].current_task = NoTask
          => /\ citizens[i].state = "idle"
             /\ citizens[i].current_job = NONE
             /\ citizens[i].carrying_resource = NONE

====
